---- MODULE Spec2Model ----
(***************************************************************************)
(* PaperFlow (src-tauri): the microphone session (AudioRecordingManager),  *)
(* the transcription engine (TranscriptionManager) and the live-preview    *)
(* worker (LivePreviewManager), as state machines.                         *)
(*                                                                         *)
(* The specifications share the variables:                                 *)
(*   SpecAudio      managers/audio.rs, the recording and stream calls, one *)
(*                  action per call                                        *)
(*   SpecSession    managers/audio.rs, every public call, with the calls   *)
(*                  that block for good on a mutex                         *)
(*   SpecThreads    managers/audio.rs, the calls run by several threads,   *)
(*                  one mutex acquisition per step                         *)
(*   SpecEngine     managers/transcription.rs, the engine lock, the        *)
(*                  loading flag and its condition variable, by thread     *)
(*   SpecEngineFair SpecEngine with fair mutex hand-over                   *)
(*   SpecIdle       managers/transcription.rs, the idle watcher and clock  *)
(*   SpecPreview    managers/live_preview.rs, start/stop and the worker    *)
(*   SpecBuffer     SpecPreview fed with batches as large as the cap       *)
(*   SpecPost       managers/transcription.rs, the post-processing stages  *)
(***************************************************************************)
EXTENDS Integers, Sequences, FiniteSets, TLC

(* ------------------------------------------------------------------ *)
(* Bounds                                                              *)
(* ------------------------------------------------------------------ *)

\* number of distinct binding ids the callers use
MaxBindings == 2

\* number of clock advances in a behaviour of SpecIdle
MaxTicks == 4

\* the finite idle timeout the settings select, in seconds
IdleSeconds == 1

\* number of background load threads that can exist at once
MaxLoaders == 2

\* number of live-preview worker threads that can exist at once
MaxWorkers == 2

\* number of samples the audio callback delivers to a preview session
MaxPushed == 16000

\* threads calling into the AudioRecordingManager at the same time
MaxThreads == 2

\* milliseconds a behaviour of SpecPace lasts
MaxClock == 6000

\* sample batches the device delivers during one recording
MaxBatches == 2

\* batches one preview session takes in
MaxPushes == 3

\* the latest millisecond a segment starts or ends at
MaxTime == 3

(* ------------------------------------------------------------------ *)
(* Program constants                                                   *)
(* ------------------------------------------------------------------ *)

WHISPER_SAMPLE_RATE == 16000

MIN_AUDIO_SAMPLES == 8000

MIN_NEW_AUDIO_SAMPLES == 1600

MAX_BUFFER_SAMPLES == 960000

MAX_CONSECUTIVE_FAILURES == 5

CLOUD_MIN_INTERVAL_MS == 3000

BACKOFF_BASE_MS == 500

BACKOFF_MAX_MS == 5000

(* ------------------------------------------------------------------ *)
(* State                                                               *)
(* ------------------------------------------------------------------ *)

VARIABLES
    \* AudioRecordingManager
    state,          \* RecordingState: Idle, or the binding id of Recording
    mode,           \* MicrophoneMode
    recorder,       \* Option<AudioRecorder>: TRUE when Some
    is_open,
    is_recording,
    did_mute,
    sys_muted,      \* what set_mute last did to the system output
    call,           \* the call that ran last: [op, arg, ret, len, kept]
    \* TranscriptionManager
    engine,         \* Option<LoadedEngine>: "None" or the engine kind
    engine_lock,    \* holder of the engine mutex, "free" when unlocked
    current_model_id,
    last_activity,
    is_loading,
    loading_lock,   \* holder of the is_loading mutex
    waiters,        \* threads parked on loading_condvar
    loaders,        \* background load threads: id -> position
    initiators,     \* initiate_model_load callers: id -> position
    fin,            \* the thread running transcribe: [pc, audio, kind, ret]
    prev,           \* the thread running transcribe_partial
    \* settings and clock
    model_unload_timeout,
    now,
    ticks,
    watcher,        \* the idle watcher thread's position
    \* LivePreviewManager
    live_preview_enabled,
    is_active,
    is_stopping,
    shutdown_signal,
    consecutive_failures,
    last_transcribed_len,
    worker_handle,  \* Option<JoinHandle>: 0 when None, else the worker id
    has_audio,
    audio_buffer,   \* number of samples held
    workers,        \* worker threads: id -> [pc, signalled]
    main,           \* the thread calling start()/stop(): [pc, joined]
    emit,           \* the event the last step published
    after_stop,     \* stop() has returned and start() was not called since
    \* transcribe's post-processing
    post,           \* [pc, settings, text]: the stage reached and its input
    \* AudioRecordingManager: mutexes held by a call that can never return
    mode_lock,      \* "free", or "held" for good by a blocked call
    state_lock,
    \* AudioRecordingManager called from several threads
    threads,        \* thread id -> [op, pc, b, m, new, back, ok]
    locks,          \* mutex name -> the thread holding it, 0 when unlocked
    \* LivePreviewManager: the audio callback thread and the two mutexes
    pusher,         \* the thread inside push_audio: [pc, n, out]
    buffer_lock,    \* holder of the audio_buffer mutex: "free", "audio", "worker"
    condvar_lock,   \* holder of the audio_condvar mutex
    stop_done,      \* how the last stop() returned, "none" after a start()
    \* LivePreviewManager: the worker's pacing
    pace,           \* [pc, is_cloud, t, last, tried, gap, cfg, eff, loaded, swapped]
    \* AudioRecordingManager: the recorder's samples and its audio callback
    tap,            \* [lpm, cb, since, heard, buf, ret, ok, fwd]
    \* TranscriptionManager: a load_model call and the events it published
    loadcall,       \* [pc, kind, events, ret]
    \* transcribe: the speaker diarization of one call
    diar,           \* [enabled, mgr, len, out]
    \* groq_transcription: one cloud call and its requests
    groq,           \* [pc, fn, attempt, retry_delay, requests, slept, log, ret]
    \* transcribe: the text of one call as the stages rewrite it
    txt,            \* [pc, raw, text]: texts are sequences of tokens
    \* LivePreviewManager: what an observer of one session has counted
    tally,          \* [fails, fatal, quiet]
    \* LivePreviewManager: the samples a session has taken in, as counted from outside
    ingest,         \* [n, total, mark, pend, decided, asked, should]
    \* DiarizationManager::assign_speakers_to_segments: one call
    asg,            \* [pc, ts, ds, out]
    \* transcribe: the speaker-labelled text of one call
    lab,            \* [pc, ts, ds, segs, out]
    \* load_model and unload_model running on several threads
    racers,         \* thread -> [pc, kind]
    \* the clock when load_model last stored an engine
    loaded_at       \* milliseconds

audioVars == <<state, mode, recorder, is_open, is_recording, did_mute, sys_muted, call>>

engineVars == <<engine, engine_lock, current_model_id, last_activity, is_loading,
                loading_lock, waiters, loaders, initiators, fin, prev>>

clockVars == <<model_unload_timeout, now, ticks, watcher>>

previewVars == <<live_preview_enabled, is_active, is_stopping, shutdown_signal,
                 consecutive_failures, last_transcribed_len, worker_handle,
                 has_audio, audio_buffer, workers, main, emit, after_stop>>

postVars == <<post>>

sessionVars == <<mode_lock, state_lock>>

threadVars == <<threads, locks>>

ingestVars == <<pusher, buffer_lock, condvar_lock, stop_done>>

paceVars == <<pace>>

tapVars == <<tap>>

loadVars == <<loadcall>>

diarVars == <<diar>>

groqVars == <<groq>>

txtVars == <<txt>>

tallyVars == <<tally>>

ingestedVars == <<ingest>>

assignVars == <<asg>>

labelVars == <<lab>>

raceVars == <<racers>>

freshVars == <<loaded_at>>

moreVars == <<diarVars, groqVars, txtVars, tallyVars, ingestedVars, assignVars, labelVars, raceVars, freshVars>>

laterVars == <<ingestVars, paceVars, tapVars, loadVars, moreVars>>

extVars == <<postVars, sessionVars, threadVars, laterVars>>

vars == <<audioVars, engineVars, clockVars, previewVars, extVars>>

(* ------------------------------------------------------------------ *)
(* Value sets                                                          *)
(* ------------------------------------------------------------------ *)

Bindings == 1..MaxBindings

\* RecordingState::Idle; Recording{binding_id} is the binding id itself
Idle == 0

MicrophoneMode == {"AlwaysOn", "OnDemand"}

\* sample counts a recorder hands back on stop()
SampleCounts == {0, 1, 15999, 16000, 24000}

\* outcomes of opening the microphone stream: everything worked, the
\* recorder could not be constructed, or the device could not be opened
OpenOutcomes == {"ok", "create_failed", "open_failed"}

EngineKinds == {"Whisper", "Parakeet", "Moonshine", "GroqCloud"}

LocalKinds == {"Whisper", "Parakeet", "Moonshine"}

(* ================================================================== *)
(* AudioRecordingManager                                               *)
(* ================================================================== *)

InitAudio ==
    /\ state = Idle
    /\ mode \in MicrophoneMode
    /\ recorder = (mode = "AlwaysOn")
    /\ is_open = (mode = "AlwaysOn")
    /\ is_recording = FALSE
    /\ did_mute = FALSE
    /\ sys_muted = FALSE
    /\ call = [op |-> "new", arg |-> 0, ret |-> "Ok", len |-> 0, kept |-> 0]

\* start_microphone_stream that clears did_mute ahead of its open check
OpenStreamResetsMute(open, rec, muted, outcome) ==
    IF open
    THEN [is_open |-> TRUE, recorder |-> rec, did_mute |-> FALSE, ok |-> TRUE]
    ELSE IF outcome = "create_failed" /\ ~rec
         THEN [is_open |-> FALSE, recorder |-> FALSE, did_mute |-> FALSE, ok |-> FALSE]
         ELSE IF outcome = "open_failed"
              THEN [is_open |-> FALSE, recorder |-> TRUE, did_mute |-> FALSE, ok |-> FALSE]
              ELSE [is_open |-> TRUE, recorder |-> TRUE, did_mute |-> FALSE, ok |-> TRUE]

\* start_microphone_stream as a function of the state it runs in: the
\* fields it leaves behind and whether it returned Ok
OpenStream(open, rec, muted, outcome) ==
    IF open
    THEN [is_open |-> TRUE, recorder |-> rec, did_mute |-> muted, ok |-> TRUE]
    ELSE IF outcome = "create_failed" /\ ~rec
         THEN [is_open |-> FALSE, recorder |-> FALSE, did_mute |-> FALSE, ok |-> FALSE]
         ELSE IF outcome = "open_failed"
              THEN [is_open |-> FALSE, recorder |-> TRUE, did_mute |-> FALSE, ok |-> FALSE]
              ELSE [is_open |-> TRUE, recorder |-> TRUE, did_mute |-> FALSE, ok |-> TRUE]

\* stop_microphone_stream that forgets to clear the open flag
CloseStreamKeepsOpen(open, rec, recording, muted, sysm) ==
    [is_open |-> open,
     is_recording |-> IF open /\ rec THEN FALSE ELSE recording,
     did_mute |-> IF open THEN FALSE ELSE muted,
     sys_muted |-> IF open /\ muted THEN FALSE ELSE sysm]

\* stop_microphone_stream as a function of the state it runs in
CloseStream(open, rec, recording, muted, sysm) ==
    IF ~open
    THEN [is_open |-> FALSE, is_recording |-> recording, did_mute |-> muted, sys_muted |-> sysm]
    ELSE [is_open |-> FALSE,
          is_recording |-> IF rec THEN FALSE ELSE recording,
          did_mute |-> FALSE,
          sys_muted |-> IF muted THEN FALSE ELSE sysm]

start_microphone_stream(outcome) ==
    LET r == OpenStream(is_open, recorder, did_mute, outcome) IN
    /\ is_open' = r.is_open
    /\ recorder' = r.recorder
    /\ did_mute' = r.did_mute
    /\ call' = [op |-> "start_microphone_stream", arg |-> 0,
                ret |-> IF r.ok THEN "Ok" ELSE "Err", len |-> 0, kept |-> 0]
    /\ UNCHANGED <<state, mode, is_recording, sys_muted>>

stop_microphone_stream ==
    LET r == CloseStream(is_open, recorder, is_recording, did_mute, sys_muted) IN
    /\ is_open' = r.is_open
    /\ is_recording' = r.is_recording
    /\ did_mute' = r.did_mute
    /\ sys_muted' = r.sys_muted
    /\ call' = [op |-> "stop_microphone_stream", arg |-> 0, ret |-> "unit", len |-> 0, kept |-> 0]
    /\ UNCHANGED <<state, mode, recorder>>

\* the body shared by try_start_recording and start_meeting_recording
StartBody(op, b, outcome, startOk) ==
    IF state = Idle
    THEN LET r == IF mode = "OnDemand"
                  THEN OpenStream(is_open, recorder, did_mute, outcome)
                  ELSE [is_open |-> is_open, recorder |-> recorder,
                        did_mute |-> did_mute, ok |-> TRUE]
             started == r.ok /\ r.recorder /\ startOk
         IN /\ is_open' = r.is_open
            /\ recorder' = r.recorder
            /\ did_mute' = r.did_mute
            /\ is_recording' = IF started THEN TRUE ELSE is_recording
            /\ state' = IF started THEN b ELSE state
            /\ call' = [op |-> op, arg |-> b,
                        ret |-> IF started THEN "true" ELSE "false", len |-> 0, kept |-> 0]
            /\ UNCHANGED <<mode, sys_muted>>
    ELSE /\ call' = [op |-> op, arg |-> b, ret |-> "false", len |-> 0, kept |-> 0]
         /\ UNCHANGED <<state, mode, recorder, is_open, is_recording, did_mute, sys_muted>>

try_start_recording(b, outcome, startOk) ==
    StartBody("try_start_recording", b, outcome, startOk)

start_meeting_recording(b, outcome, startOk) ==
    StartBody("start_meeting_recording", b, outcome, startOk)

\* padding that also stretches an empty recording
PaddedEmptyToo(n) ==
    IF n < WHISPER_SAMPLE_RATE THEN (WHISPER_SAMPLE_RATE * 5) \div 4 ELSE n

\* the length stop_recording resizes the recorder's n samples to; resize
\* keeps the n samples in front and fills up with 0.0
Padded(n) ==
    IF n < WHISPER_SAMPLE_RATE /\ n > 0 THEN (WHISPER_SAMPLE_RATE * 5) \div 4 ELSE n

\* stop_recording that stops whatever recording is active
StopMatchesAny(st, b) == TRUE

\* does stop_recording(b) find the recording it is asked to stop?
StopMatches(st, b) == st = b

stop_recording(b, n, stopOk) ==
    IF state # Idle /\ StopMatches(state, b)
    THEN LET got == IF recorder /\ stopOk THEN n ELSE 0
             r == IF mode = "OnDemand"
                  THEN CloseStream(is_open, recorder, FALSE, did_mute, sys_muted)
                  ELSE [is_open |-> is_open, is_recording |-> FALSE,
                        did_mute |-> did_mute, sys_muted |-> sys_muted]
         IN /\ state' = Idle
            /\ is_recording' = r.is_recording
            /\ is_open' = r.is_open
            /\ did_mute' = r.did_mute
            /\ sys_muted' = r.sys_muted
            /\ call' = [op |-> "stop_recording", arg |-> b, ret |-> "Some", len |-> Padded(got),
                        kept |-> got]
            /\ UNCHANGED <<mode, recorder>>
    ELSE /\ call' = [op |-> "stop_recording", arg |-> b, ret |-> "None", len |-> 0, kept |-> 0]
         /\ UNCHANGED <<state, mode, recorder, is_open, is_recording, did_mute, sys_muted>>

cancel_recording ==
    IF state # Idle
    THEN LET r == IF mode = "OnDemand"
                  THEN CloseStream(is_open, recorder, FALSE, did_mute, sys_muted)
                  ELSE [is_open |-> is_open, is_recording |-> FALSE,
                        did_mute |-> did_mute, sys_muted |-> sys_muted]
         IN /\ state' = Idle
            /\ is_recording' = r.is_recording
            /\ is_open' = r.is_open
            /\ did_mute' = r.did_mute
            /\ sys_muted' = r.sys_muted
            /\ call' = [op |-> "cancel_recording", arg |-> 0, ret |-> "unit", len |-> 0, kept |-> 0]
            /\ UNCHANGED <<mode, recorder>>
    ELSE /\ call' = [op |-> "cancel_recording", arg |-> 0, ret |-> "unit", len |-> 0, kept |-> 0]
         /\ UNCHANGED <<state, mode, recorder, is_open, is_recording, did_mute, sys_muted>>

apply_mute(mute_while_recording) ==
    /\ IF mute_while_recording /\ is_open
       THEN did_mute' = TRUE /\ sys_muted' = TRUE
       ELSE UNCHANGED <<did_mute, sys_muted>>
    /\ call' = [op |-> "apply_mute", arg |-> 0, ret |-> "unit", len |-> 0, kept |-> 0]
    /\ UNCHANGED <<state, mode, recorder, is_open, is_recording>>

\* remove_mute that clears its flag and leaves the system output muted
remove_mute_flag_only ==
    /\ did_mute' = FALSE
    /\ call' = [op |-> "remove_mute", arg |-> 0, ret |-> "unit", len |-> 0, kept |-> 0]
    /\ UNCHANGED <<state, mode, recorder, is_open, is_recording, sys_muted>>

remove_mute ==
    /\ IF did_mute
       THEN did_mute' = FALSE /\ sys_muted' = FALSE
       ELSE UNCHANGED <<did_mute, sys_muted>>
    /\ call' = [op |-> "remove_mute", arg |-> 0, ret |-> "unit", len |-> 0, kept |-> 0]
    /\ UNCHANGED <<state, mode, recorder, is_open, is_recording>>

NextAudio ==
    \/ \E o \in OpenOutcomes : start_microphone_stream(o) /\ UNCHANGED <<engineVars, clockVars, previewVars, extVars>>
    \/ stop_microphone_stream /\ UNCHANGED <<engineVars, clockVars, previewVars, extVars>>
    \/ \E b \in Bindings, o \in OpenOutcomes, ok \in BOOLEAN :
          try_start_recording(b, o, ok) /\ UNCHANGED <<engineVars, clockVars, previewVars, extVars>>
    \/ \E b \in Bindings, o \in OpenOutcomes, ok \in BOOLEAN :
          start_meeting_recording(b, o, ok) /\ UNCHANGED <<engineVars, clockVars, previewVars, extVars>>
    \/ \E b \in Bindings, n \in SampleCounts, ok \in BOOLEAN :
          stop_recording(b, n, ok) /\ UNCHANGED <<engineVars, clockVars, previewVars, extVars>>
    \/ cancel_recording /\ UNCHANGED <<engineVars, clockVars, previewVars, extVars>>
    \/ \E m \in BOOLEAN : apply_mute(m) /\ UNCHANGED <<engineVars, clockVars, previewVars, extVars>>
    \/ remove_mute /\ UNCHANGED <<engineVars, clockVars, previewVars, extVars>>

(* ------------------------------------------------------------------ *)
(* AudioRecordingManager: mode switching, device and VAD refresh, and  *)
(* calls that block on a mutex nobody will release                     *)
(* ------------------------------------------------------------------ *)

InitSession ==
    /\ mode_lock = "free"
    /\ state_lock = "free"

\* the record of a call that is parked on a mutex and never returns
Blocked(op, arg) == [op |-> op, arg |-> arg, ret |-> "blocked", len |-> 0, kept |-> 0]

\* is update_mode's mode_guard still alive when it reaches the final
\* `*self.mode.lock().unwrap() = new_mode`? It was dropped only in the
\* AlwaysOn -> OnDemand arm while Idle and in the OnDemand -> AlwaysOn arm.
ModeGuardAlive(cur, new, st) ==
    ~(\/ (cur = "AlwaysOn" /\ new = "OnDemand" /\ st = Idle)
      \/ (cur = "OnDemand" /\ new = "AlwaysOn"))

update_mode(new_mode, outcome) ==
    IF mode_lock = "held"
    THEN /\ call' = Blocked("update_mode", 0) @@ [to |-> new_mode]
         /\ UNCHANGED <<state, mode, recorder, is_open, is_recording, did_mute,
                        sys_muted, mode_lock, state_lock>>
    ELSE IF (mode = "AlwaysOn" /\ new_mode = "OnDemand" /\ state_lock = "held")
            \/ ModeGuardAlive(mode, new_mode, state)
    THEN \* parked on `state`, or on `mode` which it holds itself
         /\ mode_lock' = "held"
         /\ call' = Blocked("update_mode", 0) @@ [to |-> new_mode]
         /\ UNCHANGED <<state, mode, recorder, is_open, is_recording, did_mute,
                        sys_muted, state_lock>>
    ELSE IF mode = "AlwaysOn"
    THEN LET r == CloseStream(is_open, recorder, is_recording, did_mute, sys_muted) IN
         /\ is_open' = r.is_open
         /\ is_recording' = r.is_recording
         /\ did_mute' = r.did_mute
         /\ sys_muted' = r.sys_muted
         /\ mode' = new_mode
         /\ call' = [op |-> "update_mode", arg |-> 0, ret |-> "Ok", len |-> 0,
                     kept |-> 0, to |-> new_mode]
         /\ UNCHANGED <<state, recorder, mode_lock, state_lock>>
    ELSE LET r == OpenStream(is_open, recorder, did_mute, outcome) IN
         /\ is_open' = r.is_open
         /\ recorder' = r.recorder
         /\ did_mute' = r.did_mute
         /\ mode' = IF r.ok THEN new_mode ELSE mode
         /\ call' = [op |-> "update_mode", arg |-> 0,
                     ret |-> IF r.ok THEN "Ok" ELSE "Err", len |-> 0,
                     kept |-> 0, to |-> new_mode]
         /\ UNCHANGED <<state, is_recording, sys_muted, mode_lock, state_lock>>

\* stop_microphone_stream followed by start_microphone_stream
Reopened(open, rec, recording, muted, sysm, outcome) ==
    LET c == CloseStream(open, rec, recording, muted, sysm)
        o == OpenStream(c.is_open, rec, c.did_mute, outcome)
    IN [is_open |-> o.is_open, recorder |-> o.recorder,
        is_recording |-> c.is_recording, did_mute |-> o.did_mute,
        sys_muted |-> c.sys_muted, ok |-> o.ok]

update_selected_device(outcome) ==
    /\ IF is_open
       THEN LET r == Reopened(is_open, recorder, is_recording, did_mute, sys_muted, outcome) IN
            /\ is_open' = r.is_open
            /\ recorder' = r.recorder
            /\ is_recording' = r.is_recording
            /\ did_mute' = r.did_mute
            /\ sys_muted' = r.sys_muted
            /\ call' = [op |-> "update_selected_device", arg |-> 0,
                        ret |-> IF r.ok THEN "Ok" ELSE "Err", len |-> 0, kept |-> 0]
       ELSE /\ call' = [op |-> "update_selected_device", arg |-> 0, ret |-> "Ok",
                        len |-> 0, kept |-> 0]
            /\ UNCHANGED <<recorder, is_open, is_recording, did_mute, sys_muted>>
    /\ UNCHANGED <<state, mode, mode_lock, state_lock>>

refresh_vad_settings(outcome) ==
    /\ IF is_recording \/ ~is_open
       THEN /\ recorder' = FALSE
            /\ call' = [op |-> "refresh_vad_settings", arg |-> 0, ret |-> "Ok",
                        len |-> 0, kept |-> 0]
            /\ UNCHANGED <<is_open, is_recording, did_mute, sys_muted>>
       ELSE LET r == Reopened(is_open, FALSE, is_recording, did_mute, sys_muted, outcome) IN
            /\ is_open' = r.is_open
            /\ recorder' = r.recorder
            /\ is_recording' = r.is_recording
            /\ did_mute' = r.did_mute
            /\ sys_muted' = r.sys_muted
            /\ call' = [op |-> "refresh_vad_settings", arg |-> 0,
                        ret |-> IF r.ok THEN "Ok" ELSE "Err", len |-> 0, kept |-> 0]
    /\ UNCHANGED <<state, mode, mode_lock, state_lock>>

\* try_start_recording / start_meeting_recording cannot get past a mutex:
\* `state` is held for good, or (from Idle) `mode` is, and then the call
\* stays parked with its own `state` guard
StartBlocks == state_lock = "held" \/ (state = Idle /\ mode_lock = "held")

StartBlocked(op, b) ==
    /\ StartBlocks
    /\ state_lock' = "held"
    /\ call' = Blocked(op, b)
    /\ UNCHANGED <<state, mode, recorder, is_open, is_recording, did_mute,
                   sys_muted, mode_lock>>

\* stop_recording(b) cannot get past a mutex: `state` is held for good, or
\* it stops the recording and then parks on `mode`
StopBlocks(b) ==
    state_lock = "held" \/ (state # Idle /\ StopMatches(state, b) /\ mode_lock = "held")

StopBlocked(b) ==
    /\ StopBlocks(b)
    /\ IF state_lock = "held"
       THEN UNCHANGED <<state, is_recording>>
       ELSE state' = Idle /\ is_recording' = FALSE
    /\ call' = Blocked("stop_recording", b)
    /\ UNCHANGED <<mode, recorder, is_open, did_mute, sys_muted, mode_lock, state_lock>>

CancelBlocks == state_lock = "held" \/ (state # Idle /\ mode_lock = "held")

CancelBlocked ==
    /\ CancelBlocks
    /\ IF state_lock = "held"
       THEN UNCHANGED <<state, is_recording>>
       ELSE state' = Idle /\ is_recording' = FALSE
    /\ call' = Blocked("cancel_recording", 0)
    /\ UNCHANGED <<mode, recorder, is_open, did_mute, sys_muted, mode_lock, state_lock>>

(* ------------------------------------------------------------------ *)
(* AudioRecordingManager called from several threads: every step is    *)
(* one mutex acquisition with the code that follows it up to the next  *)
(* acquisition. is_recording and live_preview_manager are only ever    *)
(* locked for one statement with nothing acquired under them, so their *)
(* sections are part of the step that contains them.                   *)
(* ------------------------------------------------------------------ *)

ThreadIds == 1..MaxThreads

LockNames == {"state", "mode", "is_open", "did_mute", "recorder"}

ThreadOps ==
    {"try_start_recording", "stop_recording", "cancel_recording", "update_mode",
     "apply_mute", "remove_mute", "start_microphone_stream", "stop_microphone_stream"}

IdleThread ==
    [op |-> "none", pc |-> "idle", b |-> 0, m |-> FALSE, new |-> "OnDemand",
     back |-> "idle", ok |-> TRUE]

InitThreads ==
    /\ threads = [t \in ThreadIds |-> IdleThread]
    /\ locks = [l \in LockNames |-> 0]

\* the first statement of each call
Entry(op) ==
    CASE op = "try_start_recording" -> "ts_state"
      [] op = "stop_recording" -> "sr_state"
      [] op = "cancel_recording" -> "cr_state"
      [] op = "update_mode" -> "um_lock"
      [] op = "apply_mute" -> "am_lock"
      [] op = "remove_mute" -> "rm"
      [] op = "start_microphone_stream" -> "sms_open"
      [] op = "stop_microphone_stream" -> "stms_open"

\* the mutex the thread's next statement locks, "none" when it locks none
Wants(th) ==
    CASE th.pc \in {"ts_state", "sr_state", "cr_state"} -> "state"
      [] th.pc \in {"ts_mode", "sr_mode", "um_lock", "um_store"} -> "mode"
      [] th.pc = "um_match" ->
           IF mode = "AlwaysOn" /\ th.new = "OnDemand" THEN "state" ELSE "none"
      [] th.pc \in {"sms_open", "stms_open"} -> "is_open"
      [] th.pc = "am_check" -> IF th.m THEN "is_open" ELSE "none"
      [] th.pc \in {"am_lock", "rm", "sms_mute", "stms_mute"} -> "did_mute"
      [] th.pc \in {"sms_rec", "stms_rec", "sr_rec"} -> "recorder"
      [] th.pc = "ts_rec" -> IF th.ok THEN "recorder" ELSE "none"
      [] OTHER -> "none"

\* lock() goes through only on an unlocked mutex: std's Mutex is not
\* reentrant, the thread that already holds it waits like any other
CanLock(t) ==
    IF Wants(threads[t]) = "none" THEN TRUE ELSE locks[Wants(threads[t])] = 0

Take(l, t) == [locks EXCEPT ![l] = t]

Drop(ls, t) == [l \in LockNames |-> IF l \in ls /\ locks[l] = t THEN 0 ELSE locks[l]]

\* a thread enters one of the public calls
ThreadCall(t, op, b, m, new) ==
    /\ threads[t].pc = "idle"
    /\ threads' = [threads EXCEPT ![t] =
          [op |-> op, pc |-> Entry(op),
           b |-> IF op \in {"try_start_recording", "stop_recording"} THEN b ELSE 0,
           m |-> IF op = "apply_mute" THEN m ELSE FALSE,
           new |-> IF op = "update_mode" THEN new ELSE "OnDemand",
           back |-> "return", ok |-> TRUE]]
    /\ UNCHANGED <<locks, state, mode, recorder, is_open, is_recording, did_mute,
                   sys_muted, call>>

\* the call returns to its caller
ThreadReturn(t) ==
    /\ threads[t].pc = "return"
    /\ threads' = [threads EXCEPT ![t] = IdleThread]
    /\ UNCHANGED <<locks, state, mode, recorder, is_open, is_recording, did_mute,
                   sys_muted, call>>

\* ---- apply_mute, remove_mute ----

ApplyMuteLock(t) ==
    /\ threads[t].pc = "am_lock"
    /\ CanLock(t)
    /\ locks' = Take("did_mute", t)
    /\ threads' = [threads EXCEPT ![t].pc = "am_check"]
    /\ UNCHANGED <<state, mode, recorder, is_open, is_recording, did_mute, sys_muted, call>>

ApplyMuteCheck(t) ==
    /\ threads[t].pc = "am_check"
    /\ CanLock(t)
    /\ IF threads[t].m /\ is_open
       THEN did_mute' = TRUE /\ sys_muted' = TRUE
       ELSE UNCHANGED <<did_mute, sys_muted>>
    /\ locks' = Drop({"did_mute"}, t)
    /\ threads' = [threads EXCEPT ![t].pc = "return"]
    /\ UNCHANGED <<state, mode, recorder, is_open, is_recording, call>>

RemoveMute(t) ==
    /\ threads[t].pc = "rm"
    /\ CanLock(t)
    /\ IF did_mute
       THEN did_mute' = FALSE /\ sys_muted' = FALSE
       ELSE UNCHANGED <<did_mute, sys_muted>>
    /\ threads' = [threads EXCEPT ![t].pc = "return"]
    /\ UNCHANGED <<locks, state, mode, recorder, is_open, is_recording, call>>

\* ---- start_microphone_stream ----

StreamOpenLock(t) ==
    /\ threads[t].pc = "sms_open"
    /\ CanLock(t)
    /\ IF is_open
       THEN /\ threads' = [threads EXCEPT ![t].pc = threads[t].back, ![t].ok = TRUE]
            /\ UNCHANGED locks
       ELSE /\ threads' = [threads EXCEPT ![t].pc = "sms_mute"]
            /\ locks' = Take("is_open", t)
    /\ UNCHANGED <<state, mode, recorder, is_open, is_recording, did_mute, sys_muted, call>>

StreamOpenMute(t) ==
    /\ threads[t].pc = "sms_mute"
    /\ CanLock(t)
    /\ locks' = Take("did_mute", t)
    /\ did_mute' = FALSE
    /\ threads' = [threads EXCEPT ![t].pc = "sms_rec"]
    /\ UNCHANGED <<state, mode, recorder, is_open, is_recording, sys_muted, call>>

StreamOpenRecorder(t, outcome) ==
    LET r == OpenStream(FALSE, recorder, did_mute, outcome) IN
    /\ threads[t].pc = "sms_rec"
    /\ CanLock(t)
    /\ recorder' = r.recorder
    /\ is_open' = r.is_open
    /\ locks' = Drop({"is_open", "did_mute"}, t)
    /\ threads' = [threads EXCEPT ![t].pc = threads[t].back, ![t].ok = r.ok]
    /\ UNCHANGED <<state, mode, is_recording, did_mute, sys_muted, call>>

\* ---- stop_microphone_stream ----

StreamCloseLock(t) ==
    /\ threads[t].pc = "stms_open"
    /\ CanLock(t)
    /\ IF ~is_open
       THEN /\ threads' = [threads EXCEPT ![t].pc = threads[t].back]
            /\ UNCHANGED locks
       ELSE /\ threads' = [threads EXCEPT ![t].pc = "stms_mute"]
            /\ locks' = Take("is_open", t)
    /\ UNCHANGED <<state, mode, recorder, is_open, is_recording, did_mute, sys_muted, call>>

StreamCloseMute(t) ==
    /\ threads[t].pc = "stms_mute"
    /\ CanLock(t)
    /\ locks' = Take("did_mute", t)
    /\ sys_muted' = IF did_mute THEN FALSE ELSE sys_muted
    /\ did_mute' = FALSE
    /\ threads' = [threads EXCEPT ![t].pc = "stms_rec"]
    /\ UNCHANGED <<state, mode, recorder, is_open, is_recording, call>>

StreamCloseRecorder(t) ==
    /\ threads[t].pc = "stms_rec"
    /\ CanLock(t)
    /\ is_recording' = IF recorder THEN FALSE ELSE is_recording
    /\ is_open' = FALSE
    /\ locks' = Drop({"is_open", "did_mute"}, t)
    /\ threads' = [threads EXCEPT ![t].pc = threads[t].back]
    /\ UNCHANGED <<state, mode, recorder, did_mute, sys_muted, call>>

\* ---- try_start_recording ----

TryStartState(t) ==
    /\ threads[t].pc = "ts_state"
    /\ CanLock(t)
    /\ IF state # Idle
       THEN /\ threads' = [threads EXCEPT ![t].pc = "return"]
            /\ UNCHANGED locks
       ELSE /\ threads' = [threads EXCEPT ![t].pc = "ts_mode"]
            /\ locks' = Take("state", t)
    /\ UNCHANGED <<state, mode, recorder, is_open, is_recording, did_mute, sys_muted, call>>

TryStartMode(t) ==
    /\ threads[t].pc = "ts_mode"
    /\ CanLock(t)
    /\ threads' = IF mode = "OnDemand"
                  THEN [threads EXCEPT ![t].pc = "sms_open", ![t].back = "ts_rec"]
                  ELSE [threads EXCEPT ![t].pc = "ts_rec", ![t].ok = TRUE]
    /\ UNCHANGED <<locks, state, mode, recorder, is_open, is_recording, did_mute,
                   sys_muted, call>>

TryStartRecorder(t, startOk) ==
    /\ threads[t].pc = "ts_rec"
    /\ CanLock(t)
    /\ IF threads[t].ok /\ recorder /\ startOk
       THEN is_recording' = TRUE /\ state' = threads[t].b
       ELSE UNCHANGED <<is_recording, state>>
    /\ locks' = Drop({"state"}, t)
    /\ threads' = [threads EXCEPT ![t].pc = "return"]
    /\ UNCHANGED <<mode, recorder, is_open, did_mute, sys_muted, call>>

\* ---- stop_recording, cancel_recording ----

StopState(t) ==
    /\ threads[t].pc \in {"sr_state", "cr_state"}
    /\ CanLock(t)
    /\ IF state # Idle /\ (threads[t].pc = "cr_state" \/ StopMatches(state, threads[t].b))
       THEN /\ state' = Idle
            /\ threads' = [threads EXCEPT ![t].pc = "sr_rec"]
       ELSE /\ UNCHANGED state
            /\ threads' = [threads EXCEPT ![t].pc = "return"]
    /\ UNCHANGED <<locks, mode, recorder, is_open, is_recording, did_mute, sys_muted, call>>

StopRecorder(t) ==
    /\ threads[t].pc = "sr_rec"
    /\ CanLock(t)
    /\ is_recording' = FALSE
    /\ threads' = [threads EXCEPT ![t].pc = "sr_mode"]
    /\ UNCHANGED <<locks, state, mode, recorder, is_open, did_mute, sys_muted, call>>

StopMode(t) ==
    /\ threads[t].pc = "sr_mode"
    /\ CanLock(t)
    /\ threads' = IF mode = "OnDemand"
                  THEN [threads EXCEPT ![t].pc = "stms_open", ![t].back = "return"]
                  ELSE [threads EXCEPT ![t].pc = "return"]
    /\ UNCHANGED <<locks, state, mode, recorder, is_open, is_recording, did_mute,
                   sys_muted, call>>

\* ---- update_mode ----

\* let mode_guard = self.mode.lock().unwrap()
UpdateModeLock(t) ==
    /\ threads[t].pc = "um_lock"
    /\ CanLock(t)
    /\ locks' = Take("mode", t)
    /\ threads' = [threads EXCEPT ![t].pc = "um_match"]
    /\ UNCHANGED <<state, mode, recorder, is_open, is_recording, did_mute, sys_muted, call>>

\* the match: mode_guard is dropped in two of its arms only
UpdateModeMatch(t) ==
    /\ threads[t].pc = "um_match"
    /\ CanLock(t)
    /\ IF ModeGuardAlive(mode, threads[t].new, state)
       THEN /\ threads' = [threads EXCEPT ![t].pc = "um_store"]
            /\ UNCHANGED locks
       ELSE /\ locks' = Drop({"mode"}, t)
            /\ threads' = IF mode = "AlwaysOn"
                          THEN [threads EXCEPT ![t].pc = "stms_open", ![t].back = "um_store"]
                          ELSE [threads EXCEPT ![t].pc = "sms_open", ![t].back = "um_started"]
    /\ UNCHANGED <<state, mode, recorder, is_open, is_recording, did_mute, sys_muted, call>>

\* self.start_microphone_stream()?
UpdateModeStarted(t) ==
    /\ threads[t].pc = "um_started"
    /\ threads' = [threads EXCEPT ![t].pc = IF threads[t].ok THEN "um_store" ELSE "return"]
    /\ UNCHANGED <<locks, state, mode, recorder, is_open, is_recording, did_mute,
                   sys_muted, call>>

\* *self.mode.lock().unwrap() = new_mode
UpdateModeStore(t) ==
    /\ threads[t].pc = "um_store"
    /\ CanLock(t)
    /\ mode' = threads[t].new
    /\ threads' = [threads EXCEPT ![t].pc = "return"]
    /\ UNCHANGED <<locks, state, recorder, is_open, is_recording, did_mute, sys_muted, call>>

\* some threads wait, each for a mutex held by another of them: none of
\* them will ever run again
Deadlocked ==
    \E S \in SUBSET ThreadIds :
        /\ S # {}
        /\ \A t \in S : /\ Wants(threads[t]) # "none"
                        /\ locks[Wants(threads[t])] \in S \ {t}

\* the thread waits for a mutex it holds itself
SelfDeadlocked(t) ==
    /\ Wants(threads[t]) # "none"
    /\ locks[Wants(threads[t])] = t

(* ================================================================== *)
(* TranscriptionManager                                                *)
(* ================================================================== *)

\* threads that call initiate_model_load
InitiatorIds == {"i1", "i2"}

\* background threads spawned by initiate_model_load
LoaderIds == 1..MaxLoaders

\* ModelUnloadTimeout: never, right after each transcription, or after
\* IdleSeconds of inactivity
UnloadTimeouts == {"Never", "Immediately", "Sec"}

\* Option<u64>::None of ModelUnloadTimeout::to_seconds
NoTimeout == -1

to_seconds(t) ==
    IF t = "Never" THEN NoTimeout
    ELSE IF t = "Immediately" THEN 0
    ELSE IdleSeconds

FinIdle(ret) == [pc |-> "idle", audio |-> "empty", kind |-> "None", ret |-> ret]

PrevIdle(n, ret) == [pc |-> "idle", audio |-> "empty", kind |-> "None", ret |-> ret, n |-> n]

InitEngine ==
    /\ engine = "None"
    /\ engine_lock = "free"
    /\ current_model_id = "None"
    /\ last_activity = 0
    /\ is_loading = FALSE
    /\ loading_lock = "free"
    /\ waiters = {}
    /\ loaders = [l \in LoaderIds |-> "none"]
    /\ initiators = [i \in InitiatorIds |-> "idle"]
    /\ fin = FinIdle("none")
    /\ prev = PrevIdle(0, "none")

InitClock ==
    /\ model_unload_timeout \in UnloadTimeouts
    /\ now = 0
    /\ ticks = 0
    /\ watcher = "sleep"

\* ---- load_model / unload_model, called directly ----

\* load_model(model_id): the outcome is a failure (unknown id, not
\* downloaded, the backend refusing the file) or the engine kind of the
\* model; on failure nothing is stored
load_model(outcome) ==
    /\ outcome # "failed" => engine_lock = "free"
    /\ IF outcome = "failed"
       THEN UNCHANGED <<engine, current_model_id>>
       ELSE engine' = outcome /\ current_model_id' = outcome
    /\ UNCHANGED <<engine_lock, last_activity, is_loading, loading_lock, waiters,
                   loaders, initiators, fin, prev>>

unload_model ==
    /\ engine_lock = "free"
    /\ engine' = "None"
    /\ current_model_id' = "None"
    /\ UNCHANGED <<engine_lock, last_activity, is_loading, loading_lock, waiters,
                   loaders, initiators, fin, prev>>

\* the settings command that changes the unload policy
set_model_unload_timeout(t) ==
    /\ model_unload_timeout # t
    /\ model_unload_timeout' = t
    /\ UNCHANGED <<now, ticks, watcher>>

\* ---- initiate_model_load ----

\* initiate_model_load that only asks whether a model is loaded
ShouldLoadUnlessLoaded(loading, eng) == eng = "None"

\* the test under the is_loading lock: start a background load?
ShouldLoad(loading, eng) == ~(loading \/ eng # "None")

\* the loader id thread::spawn hands out
FreeLoader == CHOOSE l \in LoaderIds : loaders[l] = "none" /\ \A k \in LoaderIds : loaders[k] = "none" => l <= k

InitiateLock(i) ==
    /\ initiators[i] = "idle"
    /\ loading_lock = "free"
    /\ loading_lock' = i
    /\ initiators' = [initiators EXCEPT ![i] = "locked"]
    /\ UNCHANGED <<engine, engine_lock, current_model_id, last_activity, is_loading,
                   waiters, loaders, fin, prev>>

InitiateBody(i) ==
    /\ initiators[i] = "locked"
    /\ is_loading \/ engine_lock = "free"
    /\ IF ShouldLoad(is_loading, engine)
       THEN /\ \E l \in LoaderIds : loaders[l] = "none"
            /\ is_loading' = TRUE
            /\ loaders' = [loaders EXCEPT ![FreeLoader] = "load"]
       ELSE UNCHANGED <<is_loading, loaders>>
    /\ loading_lock' = "free"
    /\ initiators' = [initiators EXCEPT ![i] = "idle"]
    /\ UNCHANGED <<engine, engine_lock, current_model_id, last_activity, waiters, fin, prev>>

\* the background thread: load_model(settings.selected_model)
LoaderLoad(l, outcome) ==
    /\ loaders[l] = "load"
    /\ outcome # "failed" => engine_lock = "free"
    /\ IF outcome = "failed"
       THEN UNCHANGED <<engine, current_model_id>>
       ELSE engine' = outcome /\ current_model_id' = outcome
    /\ loaders' = [loaders EXCEPT ![l] = "finish"]
    /\ UNCHANGED <<engine_lock, last_activity, is_loading, loading_lock, waiters,
                   initiators, fin, prev>>

\* a load thread that clears the flag without notifying
NotifyNobody(ws) == ws

\* loading_condvar.notify_all(): the threads still parked afterwards
NotifyAll(ws) == {}

\* the background thread: is_loading = false, notify_all
LoaderFinish(l) ==
    /\ loaders[l] = "finish"
    /\ loading_lock = "free"
    /\ is_loading' = FALSE
    /\ waiters' = NotifyAll(waiters)
    /\ loaders' = [loaders EXCEPT ![l] = "none"]
    /\ UNCHANGED <<engine, engine_lock, current_model_id, last_activity, loading_lock,
                   initiators, fin, prev>>

\* ---- transcribe ----

\* maybe_unload_immediately: the engine it leaves behind
AfterImmediate(t, eng) == IF t = "Immediately" THEN "None" ELSE eng

TranscribeCall(a) ==
    /\ fin.pc = "idle"
    /\ last_activity' = now
    /\ fin' = [pc |-> IF a = "empty" THEN "empty_unload" ELSE "lock_loading",
               audio |-> a, kind |-> "None", ret |-> "none"]
    /\ UNCHANGED <<engine, engine_lock, current_model_id, is_loading, loading_lock,
                   waiters, loaders, initiators, prev>>

\* empty audio: maybe_unload_immediately, Ok(String::new())
TranscribeEmpty ==
    /\ fin.pc = "empty_unload"
    /\ model_unload_timeout = "Immediately" => engine_lock = "free"
    /\ engine' = AfterImmediate(model_unload_timeout, engine)
    /\ current_model_id' = AfterImmediate(model_unload_timeout, current_model_id)
    /\ fin' = FinIdle("OkEmpty")
    /\ UNCHANGED <<engine_lock, last_activity, is_loading, loading_lock, waiters,
                   loaders, initiators, prev>>

\* self.is_loading.lock()
TranscribeLockLoading ==
    /\ fin.pc = "lock_loading"
    /\ loading_lock = "free"
    /\ loading_lock' = "final"
    /\ fin' = [fin EXCEPT !.pc = "check_loading"]
    /\ UNCHANGED <<engine, engine_lock, current_model_id, last_activity, is_loading,
                   waiters, loaders, initiators, prev>>

\* while *is_loading { wait }: does the loop body run?
MustWait(loading) == loading

TranscribeCheckLoading ==
    /\ fin.pc = "check_loading"
    /\ IF MustWait(is_loading)
       THEN /\ loading_lock' = "free"
            /\ waiters' = waiters \cup {"final"}
            /\ fin' = [fin EXCEPT !.pc = "waiting"]
       ELSE /\ fin' = [fin EXCEPT !.pc = "check_engine"]
            /\ UNCHANGED <<loading_lock, waiters>>
    /\ UNCHANGED <<engine, engine_lock, current_model_id, last_activity, is_loading,
                   loaders, initiators, prev>>

\* the condition variable may wake a waiter that nobody notified
SpuriousWake ==
    /\ fin.pc = "waiting"
    /\ "final" \in waiters
    /\ waiters' = waiters \ {"final"}
    /\ UNCHANGED <<engine, engine_lock, current_model_id, last_activity, is_loading,
                   loading_lock, loaders, initiators, fin, prev>>

\* wait() returns: the woken thread takes the is_loading lock again
TranscribeWake ==
    /\ fin.pc = "waiting"
    /\ "final" \notin waiters
    /\ loading_lock = "free"
    /\ loading_lock' = "final"
    /\ fin' = [fin EXCEPT !.pc = "check_loading"]
    /\ UNCHANGED <<engine, engine_lock, current_model_id, last_activity, is_loading,
                   waiters, loaders, initiators, prev>>

\* engine_guard.is_none() under both locks
TranscribeCheckEngine ==
    /\ fin.pc = "check_engine"
    /\ engine_lock = "free"
    /\ loading_lock' = "free"
    /\ fin' = IF engine = "None" THEN FinIdle("ErrNotLoaded")
              ELSE [fin EXCEPT !.pc = "dispatch"]
    /\ UNCHANGED <<engine, engine_lock, current_model_id, last_activity, is_loading,
                   waiters, loaders, initiators, prev>>

\* the holder of the engine lock while transcribe runs the backend of
\* kind k: the guard lives to the end of the dispatch block for every kind
FinalHolds(k) == "final"

\* self.engine.lock() and the match on the engine kind
TranscribeDispatch ==
    /\ fin.pc = "dispatch"
    /\ engine_lock = "free"
    /\ IF engine = "None"
       THEN /\ fin' = FinIdle("ErrLoadFailed")
            /\ UNCHANGED engine_lock
       ELSE /\ fin' = [fin EXCEPT !.pc = "in_engine", !.kind = engine]
            /\ engine_lock' = FinalHolds(engine)
    /\ UNCHANGED <<engine, current_model_id, last_activity, is_loading, loading_lock,
                   waiters, loaders, initiators, prev>>

\* the backend (local inference or the cloud request) returns
TranscribeEngineDone(ok) ==
    /\ fin.pc = "in_engine"
    /\ engine_lock' = IF engine_lock = "final" THEN "free" ELSE engine_lock
    /\ fin' = IF ok THEN [fin EXCEPT !.pc = "post"] ELSE FinIdle("ErrEngine")
    /\ UNCHANGED <<engine, current_model_id, last_activity, is_loading, loading_lock,
                   waiters, loaders, initiators, prev>>

\* diarization, post-processing, maybe_unload_immediately, Ok(text)
TranscribePost ==
    /\ fin.pc = "post"
    /\ model_unload_timeout = "Immediately" => engine_lock = "free"
    /\ engine' = AfterImmediate(model_unload_timeout, engine)
    /\ current_model_id' = AfterImmediate(model_unload_timeout, current_model_id)
    /\ fin' = FinIdle("Ok")
    /\ UNCHANGED <<engine_lock, last_activity, is_loading, loading_lock, waiters,
                   loaders, initiators, prev>>

\* ---- transcribe_partial ----

\* transcribe_partial reporting a held lock as a backend failure
PartialEntryGeneric(lock, eng) ==
    IF lock # "free" THEN "ErrEngine"
    ELSE IF eng = "None" THEN "ErrNotLoaded"
    ELSE IF eng \in LocalKinds THEN "in_engine"
    ELSE "network"

\* what try_lock and the match make of the call: an immediate result, or
\* the backend the call enters
PartialEntry(lock, eng) ==
    IF lock # "free" THEN "EngineBusy"
    ELSE IF eng = "None" THEN "ErrNotLoaded"
    ELSE IF eng \in LocalKinds THEN "in_engine"
    ELSE "network"

\* the holder of the engine lock while transcribe_partial runs the
\* backend: kept for local inference, dropped before the cloud request
PartialHolds(entry) == IF entry = "in_engine" THEN "preview" ELSE "free"

transcribe_partial(a) ==
    /\ prev.pc = "idle"
    /\ last_activity' = now
    /\ LET e == PartialEntry(engine_lock, engine) IN
       IF a = "empty"
       THEN /\ prev' = PrevIdle(1 - prev.n, "OkEmpty") /\ UNCHANGED engine_lock
       ELSE IF e \in {"in_engine", "network"}
            THEN /\ prev' = [pc |-> e, audio |-> a, kind |-> engine, ret |-> "none", n |-> 1 - prev.n]
                 /\ engine_lock' = PartialHolds(e)
            ELSE /\ prev' = [PrevIdle(1 - prev.n, e) EXCEPT !.audio = a]
                 /\ UNCHANGED engine_lock
    /\ UNCHANGED <<engine, current_model_id, is_loading, loading_lock, waiters,
                   loaders, initiators, fin>>

PartialDone(ok) ==
    /\ prev.pc \in {"in_engine", "network"}
    /\ engine_lock' = IF engine_lock = "preview" THEN "free" ELSE engine_lock
    /\ prev' = [PrevIdle(prev.n, IF ok THEN "Ok" ELSE "ErrEngine") EXCEPT !.audio = prev.audio]
    /\ UNCHANGED <<engine, current_model_id, last_activity, is_loading, loading_lock,
                   waiters, loaders, initiators, fin>>

\* ---- the idle watcher thread ----

SatSub(a, b) == IF a > b THEN a - b ELSE 0

\* an idle test that fires on the boundary
ExpiredAtBoundary(n, last, limit) == SatSub(n, last) >= limit * 1000

\* now_ms.saturating_sub(last) > limit_seconds * 1000
Expired(n, last, limit) == SatSub(n, last) > limit * 1000

\* one pass of the loop body after the sleep, up to is_model_loaded()
IdleWatcherCheck ==
    /\ watcher = "sleep"
    /\ LET limit == to_seconds(model_unload_timeout)
           due == /\ limit # NoTimeout
                  /\ model_unload_timeout # "Immediately"
                  /\ Expired(now, last_activity, limit)
       IN /\ due => engine_lock = "free"
          /\ watcher' = IF due /\ engine # "None" THEN "unload" ELSE "checked"
    /\ UNCHANGED <<model_unload_timeout, now, ticks, engineVars>>

\* manager_cloned.unload_model()
IdleWatcherUnload ==
    /\ watcher = "unload"
    /\ unload_model
    /\ watcher' = "checked"
    /\ UNCHANGED <<model_unload_timeout, now, ticks>>

\* thread::sleep(10 s)
IdleWatcherSleep ==
    /\ watcher = "checked"
    /\ watcher' = "sleep"
    /\ UNCHANGED <<model_unload_timeout, now, ticks, engineVars>>

\* the clock advances by one millisecond, or to just before or onto an
\* idle-timeout boundary
TickSteps == {1, IdleSeconds * 1000 - 1, IdleSeconds * 1000}

Tick(d) ==
    /\ ticks < MaxTicks
    /\ now' = now + d
    /\ ticks' = ticks + 1
    /\ UNCHANGED <<model_unload_timeout, watcher, engineVars>>

(* ================================================================== *)
(* LivePreviewManager                                                  *)
(* ================================================================== *)

WorkerIds == 1..MaxWorkers

\* JoinHandle: None
NoWorker == 0

\* sizes of the sample batches the audio callback delivers
BatchSizes == {8000}

\* what transcribe_partial hands back to the worker
PartialResults == {"text", "empty", "busy", "error"}

NoThread == [pc |-> "none", ended |-> FALSE, len |-> 0]

MainIdle == [pc |-> "idle", target |-> NoWorker]

InitPreview ==
    /\ live_preview_enabled \in BOOLEAN
    /\ is_active = FALSE
    /\ is_stopping = FALSE
    /\ shutdown_signal = FALSE
    /\ consecutive_failures = 0
    /\ last_transcribed_len = 0
    /\ worker_handle = NoWorker
    /\ has_audio = FALSE
    /\ audio_buffer = 0
    /\ workers = [w \in WorkerIds |-> NoThread]
    /\ main = MainIdle
    /\ emit = [ev |-> "none", n |-> 0]
    /\ after_stop = FALSE

\* app_handle.emit(...): the record of the last event and the parity of
\* the number of events published so far
Published(ev) == [ev |-> ev, n |-> 1 - emit.n]

\* worker threads whose loop is executing
Running == {w \in WorkerIds : workers[w].pc \notin {"none", "done"}}

\* the thread thread::Builder::spawn creates
FreeWorker ==
    CHOOSE w \in WorkerIds :
        /\ workers[w].pc \in {"none", "done"} /\ w # worker_handle
        /\ \A k \in WorkerIds :
               workers[k].pc \in {"none", "done"} /\ k # worker_handle => w <= k

\* the settings command that switches the feature
set_live_preview_enabled(v) ==
    /\ live_preview_enabled # v
    /\ live_preview_enabled' = v
    /\ UNCHANGED <<is_active, is_stopping, shutdown_signal, consecutive_failures,
                   last_transcribed_len, worker_handle, has_audio, audio_buffer,
                   workers, main, emit, after_stop>>

\* start(): the checks, the compare-exchange, the resets and the spawn
start(spawnOk) ==
    /\ main.pc = "idle"
    /\ after_stop' = FALSE
    /\ IF ~live_preview_enabled \/ engine = "None" \/ is_active
       THEN UNCHANGED <<is_active, is_stopping, shutdown_signal, consecutive_failures,
                        last_transcribed_len, worker_handle, has_audio, audio_buffer,
                        workers, emit>>
       ELSE /\ is_stopping' = FALSE
            /\ shutdown_signal' = FALSE
            /\ consecutive_failures' = 0
            /\ last_transcribed_len' = 0
            /\ audio_buffer' = 0
            /\ has_audio' = FALSE
            /\ IF spawnOk
               THEN /\ \E w \in WorkerIds : workers[w].pc \in {"none", "done"} /\ w # worker_handle
                    /\ is_active' = TRUE
                    /\ workers' = [workers EXCEPT ![FreeWorker] =
                                      [pc |-> "top", ended |-> FALSE, len |-> 0]]
                    /\ worker_handle' = FreeWorker
                    /\ UNCHANGED emit
               ELSE /\ is_active' = FALSE
                    /\ emit' = Published("error")
                    /\ UNCHANGED <<workers, worker_handle>>
    /\ UNCHANGED <<live_preview_enabled, main>>

\* stop(): is_stopping.store(true)
StopCall ==
    /\ main.pc = "idle"
    /\ is_stopping' = TRUE
    /\ main' = [main EXCEPT !.pc = "stop_cas"]
    /\ UNCHANGED <<live_preview_enabled, is_active, shutdown_signal, consecutive_failures,
                   last_transcribed_len, worker_handle, has_audio, audio_buffer,
                   workers, emit, after_stop>>

\* stop(): the compare-exchange; when it succeeds the shutdown signal is
\* raised, the worker is woken and its handle is taken for the join
StopCas ==
    /\ main.pc = "stop_cas"
    /\ IF is_active
       THEN /\ is_active' = FALSE
            /\ shutdown_signal' = TRUE
            /\ has_audio' = TRUE
            /\ worker_handle' = NoWorker
            /\ main' = [pc |-> "joining", target |-> worker_handle]
            /\ workers' = [w \in WorkerIds |->
                              IF w = worker_handle /\ workers[w].pc # "none"
                              THEN [workers[w] EXCEPT !.ended = TRUE]
                              ELSE workers[w]]
            /\ UNCHANGED <<is_stopping, after_stop>>
       ELSE /\ is_stopping' = FALSE
            /\ main' = MainIdle
            /\ after_stop' = TRUE
            /\ UNCHANGED <<is_active, shutdown_signal, has_audio, worker_handle, workers>>
    /\ UNCHANGED <<live_preview_enabled, consecutive_failures, last_transcribed_len,
                   audio_buffer, emit>>

\* join_worker_with_timeout: the handle reports the thread finished
JoinFinished ==
    /\ main.pc = "joining"
    /\ main.target = NoWorker \/ workers[main.target].pc = "done"
    /\ main' = [pc |-> "cleanup", target |-> NoWorker]
    /\ UNCHANGED <<live_preview_enabled, is_active, is_stopping, shutdown_signal,
                   consecutive_failures, last_transcribed_len, worker_handle,
                   has_audio, audio_buffer, workers, emit, after_stop>>

\* join_worker_with_timeout: WORKER_JOIN_TIMEOUT_MS pass while the worker
\* is inside transcribe_partial (local inference or a cloud request, both
\* of unbounded length); the thread is left running
JoinTimeout ==
    /\ main.pc = "joining"
    /\ main.target # NoWorker
    /\ workers[main.target].pc = "transcribing"
    /\ main' = [pc |-> "cleanup", target |-> NoWorker]
    /\ UNCHANGED <<live_preview_enabled, is_active, is_stopping, shutdown_signal,
                   consecutive_failures, last_transcribed_len, worker_handle,
                   has_audio, audio_buffer, workers, emit, after_stop>>

\* stop(): the buffer is cleared, is_stopping.store(false), return
StopCleanup ==
    /\ main.pc = "cleanup"
    /\ audio_buffer' = 0
    /\ is_stopping' = FALSE
    /\ main' = MainIdle
    /\ after_stop' = TRUE
    /\ UNCHANGED <<live_preview_enabled, is_active, shutdown_signal, consecutive_failures,
                   last_transcribed_len, worker_handle, has_audio, workers, emit>>

\* the sliding window: the samples kept when a batch of n arrives
Appended(len, n) ==
    IF len + n > MAX_BUFFER_SAMPLES
    THEN LET overflow == len + n - MAX_BUFFER_SAMPLES
             drain == IF overflow < len THEN overflow ELSE len
         IN (len - drain) + n
    ELSE len + n

\* push_audio with a batch of n samples
PushAudio(n) ==
    /\ IF ~is_active \/ is_stopping
       THEN UNCHANGED <<audio_buffer, has_audio>>
       ELSE /\ audio_buffer' = Appended(audio_buffer, n)
            /\ has_audio' = TRUE
    /\ UNCHANGED <<live_preview_enabled, is_active, is_stopping, shutdown_signal,
                   consecutive_failures, last_transcribed_len, worker_handle,
                   workers, main, emit, after_stop>>

\* push_audio while the session has taken in at most MaxPushed samples
push_audio(n) ==
    /\ audio_buffer + n <= MaxPushed
    /\ PushAudio(n)

\* a batch as large as the cap, and one a sample larger
LargeBatches == {MAX_BUFFER_SAMPLES, MAX_BUFFER_SAMPLES + 1}

\* ---- run_worker ----

\* the shutdown checks of the loop: does the worker leave?
MustExit(shutdown, stopping) == shutdown \/ stopping

\* top of the loop: the shutdown checks and the settings check
WorkerTop(w) ==
    /\ workers[w].pc = "top"
    /\ IF MustExit(shutdown_signal, is_stopping)
       THEN /\ workers' = [workers EXCEPT ![w].pc = "done"]
            /\ UNCHANGED emit
       ELSE IF ~live_preview_enabled
            THEN /\ workers' = [workers EXCEPT ![w].pc = "done"]
                 /\ emit' = Published("error")
            ELSE /\ workers' = [workers EXCEPT ![w].pc = "wait"]
                 /\ UNCHANGED emit
    /\ UNCHANGED <<live_preview_enabled, is_active, is_stopping, shutdown_signal,
                   consecutive_failures, last_transcribed_len, worker_handle,
                   has_audio, audio_buffer, main, after_stop>>

\* the wait for audio: skipped when the interval has already elapsed,
\* otherwise it ends on a notification or on the timeout and clears the flag
WorkerWait(w, waited) ==
    /\ workers[w].pc = "wait"
    /\ has_audio' = IF waited THEN FALSE ELSE has_audio
    /\ workers' = [workers EXCEPT ![w].pc = "recheck"]
    /\ UNCHANGED <<live_preview_enabled, is_active, is_stopping, shutdown_signal,
                   consecutive_failures, last_transcribed_len, worker_handle,
                   audio_buffer, main, emit, after_stop>>

\* get_audio_for_transcription: is there enough audio to transcribe?
HasAudioForTranscription(len, last) ==
    ~(len <= last + MIN_NEW_AUDIO_SAMPLES) /\ ~(len < MIN_AUDIO_SAMPLES)

\* after the wait: the shutdown checks, the timing check, the audio check
\* and the last is_stopping check before transcribe_partial is called
WorkerRecheck(w, due) ==
    /\ workers[w].pc = "recheck"
    /\ workers' = [workers EXCEPT ![w] =
          IF MustExit(shutdown_signal, is_stopping) THEN [@ EXCEPT !.pc = "done"]
          ELSE IF ~due THEN [@ EXCEPT !.pc = "top"]
          ELSE IF ~HasAudioForTranscription(audio_buffer, last_transcribed_len)
               THEN [@ EXCEPT !.pc = "top"]
          ELSE [@ EXCEPT !.pc = "transcribing", !.len = audio_buffer]]
    /\ UNCHANGED <<live_preview_enabled, is_active, is_stopping, shutdown_signal,
                   consecutive_failures, last_transcribed_len, worker_handle,
                   has_audio, audio_buffer, main, emit, after_stop>>

\* transcribe_partial returns to the worker
WorkerTranscribed(w, r) ==
    /\ workers[w].pc = "transcribing"
    /\ IF r \in {"text", "empty"}
       THEN /\ consecutive_failures' = 0
            /\ last_transcribed_len' = workers[w].len
            /\ emit' = IF r = "text" THEN Published("update") ELSE emit
            /\ workers' = [workers EXCEPT ![w].pc = "top", ![w].len = 0]
       ELSE IF r = "busy"
            THEN /\ workers' = [workers EXCEPT ![w].pc = "top", ![w].len = 0]
                 /\ UNCHANGED <<consecutive_failures, last_transcribed_len, emit>>
            ELSE /\ consecutive_failures' = consecutive_failures + 1
                 /\ IF consecutive_failures + 1 >= MAX_CONSECUTIVE_FAILURES
                    THEN /\ emit' = Published("error")
                         /\ workers' = [workers EXCEPT ![w].pc = "done", ![w].len = 0]
                    ELSE /\ workers' = [workers EXCEPT ![w].pc = "top", ![w].len = 0]
                         /\ UNCHANGED emit
                 /\ UNCHANGED last_transcribed_len
    /\ UNCHANGED <<live_preview_enabled, is_active, is_stopping, shutdown_signal,
                   worker_handle, has_audio, audio_buffer, main, after_stop>>

(* ================================================================== *)
(* LivePreviewManager: push_audio on the audio callback thread, lock   *)
(* by lock, against start(), stop() and the worker                     *)
(* ================================================================== *)

PusherIdle == [pc |-> "idle", n |-> 0, out |-> "none"]

InitIngest ==
    /\ pusher = PusherIdle
    /\ buffer_lock = "free"
    /\ condvar_lock = "free"
    /\ stop_done = "none"

\* push_audio: is_active.load(); an inactive session returns at once
PushCall(n) ==
    /\ pusher.pc = "idle"
    /\ pusher' = IF ~is_active
                 THEN [pc |-> "idle", n |-> 0, out |-> "inactive"]
                 ELSE [pc |-> "check_stopping", n |-> n, out |-> "none"]
    /\ UNCHANGED <<buffer_lock, condvar_lock, stop_done>>
    /\ UNCHANGED previewVars

\* push_audio: is_stopping.load()
PushCheckStopping ==
    /\ pusher.pc = "check_stopping"
    /\ pusher' = IF is_stopping
                 THEN [pc |-> "idle", n |-> 0, out |-> "stopping"]
                 ELSE [pusher EXCEPT !.pc = "try_buffer"]
    /\ UNCHANGED <<buffer_lock, condvar_lock, stop_done>>
    /\ UNCHANGED previewVars

\* audio_buffer.lock(): the call that parks the caller until the mutex is free
PushLockBuffer ==
    /\ pusher.pc = "try_buffer"
    /\ buffer_lock = "free"
    /\ buffer_lock' = "audio"
    /\ pusher' = [pusher EXCEPT !.pc = "append"]
    /\ UNCHANGED <<condvar_lock, stop_done>>
    /\ UNCHANGED previewVars

\* push_audio: audio_buffer.try_lock(); Err returns, the batch is skipped
PushTryBuffer ==
    /\ pusher.pc = "try_buffer"
    /\ IF buffer_lock = "free"
       THEN /\ buffer_lock' = "audio"
            /\ pusher' = [pusher EXCEPT !.pc = "append"]
       ELSE /\ pusher' = [pc |-> "idle", n |-> 0, out |-> "dropped"]
            /\ UNCHANGED buffer_lock
    /\ UNCHANGED <<condvar_lock, stop_done>>
    /\ UNCHANGED previewVars

\* push_audio: the sliding window and extend_from_slice
PushAppend ==
    /\ pusher.pc = "append"
    /\ audio_buffer' = Appended(audio_buffer, pusher.n)
    /\ pusher' = [pusher EXCEPT !.pc = "try_condvar"]
    /\ UNCHANGED <<buffer_lock, condvar_lock, stop_done>>
    /\ UNCHANGED <<live_preview_enabled, is_active, is_stopping, shutdown_signal,
                   consecutive_failures, last_transcribed_len, worker_handle,
                   has_audio, workers, main, emit, after_stop>>

\* push_audio: audio_condvar.0.try_lock(), the flag and notify_one when it
\* is free; the function returns and its buffer guard is dropped
PushTryCondvar ==
    /\ pusher.pc = "try_condvar"
    /\ has_audio' = IF condvar_lock = "free" THEN TRUE ELSE has_audio
    /\ pusher' = [pc |-> "idle", n |-> 0,
                  out |-> IF condvar_lock = "free" THEN "signalled" ELSE "appended"]
    /\ buffer_lock' = "free"
    /\ UNCHANGED <<condvar_lock, stop_done>>
    /\ UNCHANGED <<live_preview_enabled, is_active, is_stopping, shutdown_signal,
                   consecutive_failures, last_transcribed_len, worker_handle,
                   audio_buffer, workers, main, emit, after_stop>>

\* the steps of a push_audio call that has passed its first check
PusherStep == PushCheckStopping \/ PushTryBuffer \/ PushAppend \/ PushTryCondvar

\* start(): the checks, the compare-exchange and the four stores
StartBegin ==
    /\ main.pc = "idle"
    /\ after_stop' = FALSE
    /\ stop_done' = "none"
    /\ IF ~live_preview_enabled \/ engine = "None" \/ is_active
       THEN UNCHANGED <<is_active, is_stopping, shutdown_signal, consecutive_failures,
                        last_transcribed_len, main>>
       ELSE /\ is_active' = TRUE
            /\ is_stopping' = FALSE
            /\ shutdown_signal' = FALSE
            /\ consecutive_failures' = 0
            /\ last_transcribed_len' = 0
            /\ main' = [main EXCEPT !.pc = "start_clear"]
    /\ UNCHANGED <<live_preview_enabled, worker_handle, has_audio, audio_buffer,
                   workers, emit>>
    /\ UNCHANGED <<pusher, buffer_lock, condvar_lock>>

\* start(): audio_buffer.lock() and clear()
StartClear ==
    /\ main.pc = "start_clear"
    /\ buffer_lock = "free"
    /\ audio_buffer' = 0
    /\ main' = [main EXCEPT !.pc = "start_spawn"]
    /\ UNCHANGED <<live_preview_enabled, is_active, is_stopping, shutdown_signal,
                   consecutive_failures, last_transcribed_len, worker_handle,
                   has_audio, workers, emit, after_stop>>
    /\ UNCHANGED ingestVars

\* start(): audio_condvar.0.lock(), the flag reset and the spawn
StartSpawn(spawnOk) ==
    /\ main.pc = "start_spawn"
    /\ condvar_lock = "free"
    /\ has_audio' = FALSE
    /\ IF spawnOk
       THEN /\ \E w \in WorkerIds : workers[w].pc \in {"none", "done"} /\ w # worker_handle
            /\ workers' = [workers EXCEPT ![FreeWorker] =
                              [pc |-> "top", ended |-> FALSE, len |-> 0]]
            /\ worker_handle' = FreeWorker
            /\ UNCHANGED <<is_active, emit>>
       ELSE /\ is_active' = FALSE
            /\ emit' = Published("error")
            /\ UNCHANGED <<workers, worker_handle>>
    /\ main' = MainIdle
    /\ UNCHANGED <<live_preview_enabled, is_stopping, shutdown_signal,
                   consecutive_failures, last_transcribed_len, audio_buffer, after_stop>>
    /\ UNCHANGED ingestVars

\* stop(): the compare-exchange; wake_worker locks the condvar mutex
IngestStopCas ==
    /\ condvar_lock = "free" \/ ~is_active
    /\ StopCas
    /\ stop_done' = IF is_active THEN stop_done ELSE "inactive"
    /\ UNCHANGED <<pusher, buffer_lock, condvar_lock>>

\* stop(): the cleanup locks the buffer mutex
IngestStopCleanup ==
    /\ buffer_lock = "free"
    /\ StopCleanup
    /\ stop_done' = "active"
    /\ UNCHANGED <<pusher, buffer_lock, condvar_lock>>

\* run_worker: audio_condvar.0.lock() when the timeout is not zero
IngestWaitLock(w, waited) ==
    /\ workers[w].pc = "wait"
    /\ IF waited
       THEN /\ condvar_lock = "free"
            /\ condvar_lock' = "worker"
            /\ workers' = [workers EXCEPT ![w].pc = "cv_locked"]
       ELSE /\ workers' = [workers EXCEPT ![w].pc = "recheck"]
            /\ UNCHANGED condvar_lock
    /\ UNCHANGED <<pusher, buffer_lock, stop_done>>
    /\ UNCHANGED <<live_preview_enabled, is_active, is_stopping, shutdown_signal,
                   consecutive_failures, last_transcribed_len, worker_handle,
                   has_audio, audio_buffer, main, emit, after_stop>>

\* run_worker: with the flag set it is cleared and the guard dropped;
\* otherwise wait_timeout releases the mutex and parks the worker
IngestWaitPark(w) ==
    /\ workers[w].pc = "cv_locked"
    /\ condvar_lock' = "free"
    /\ IF has_audio
       THEN /\ has_audio' = FALSE
            /\ workers' = [workers EXCEPT ![w].pc = "recheck"]
       ELSE /\ workers' = [workers EXCEPT ![w].pc = "parked"]
            /\ UNCHANGED has_audio
    /\ UNCHANGED <<pusher, buffer_lock, stop_done>>
    /\ UNCHANGED <<live_preview_enabled, is_active, is_stopping, shutdown_signal,
                   consecutive_failures, last_transcribed_len, worker_handle,
                   audio_buffer, main, emit, after_stop>>

\* run_worker: wait_timeout returns (notification or timeout) with the
\* mutex taken again; the flag is cleared and the guard dropped
IngestWaitWake(w) ==
    /\ workers[w].pc = "parked"
    /\ condvar_lock = "free"
    /\ has_audio' = FALSE
    /\ workers' = [workers EXCEPT ![w].pc = "recheck"]
    /\ UNCHANGED ingestVars
    /\ UNCHANGED <<live_preview_enabled, is_active, is_stopping, shutdown_signal,
                   consecutive_failures, last_transcribed_len, worker_handle,
                   audio_buffer, main, emit, after_stop>>

\* run_worker after the wait: the shutdown checks and the timing check
IngestChecks(w, due) ==
    /\ workers[w].pc = "recheck"
    /\ workers' = [workers EXCEPT ![w].pc =
          IF MustExit(shutdown_signal, is_stopping) THEN "done"
          ELSE IF ~due THEN "top" ELSE "get_audio"]
    /\ UNCHANGED ingestVars
    /\ UNCHANGED <<live_preview_enabled, is_active, is_stopping, shutdown_signal,
                   consecutive_failures, last_transcribed_len, worker_handle,
                   has_audio, audio_buffer, main, emit, after_stop>>

\* get_audio_for_transcription: audio_buffer.lock()
IngestLockBuffer(w) ==
    /\ workers[w].pc = "get_audio"
    /\ buffer_lock = "free"
    /\ buffer_lock' = "worker"
    /\ workers' = [workers EXCEPT ![w].pc = "copying"]
    /\ UNCHANGED <<pusher, condvar_lock, stop_done>>
    /\ UNCHANGED <<live_preview_enabled, is_active, is_stopping, shutdown_signal,
                   consecutive_failures, last_transcribed_len, worker_handle,
                   has_audio, audio_buffer, main, emit, after_stop>>

\* get_audio_for_transcription: the two length checks and the copy under
\* the guard, then the last is_stopping check of the loop
IngestCopy(w) ==
    /\ workers[w].pc = "copying"
    /\ buffer_lock' = "free"
    /\ workers' = [workers EXCEPT ![w] =
          IF ~HasAudioForTranscription(audio_buffer, last_transcribed_len)
          THEN [@ EXCEPT !.pc = "top"]
          ELSE IF is_stopping THEN [@ EXCEPT !.pc = "done"]
          ELSE [@ EXCEPT !.pc = "transcribing", !.len = audio_buffer]]
    /\ UNCHANGED <<pusher, condvar_lock, stop_done>>
    /\ UNCHANGED <<live_preview_enabled, is_active, is_stopping, shutdown_signal,
                   consecutive_failures, last_transcribed_len, worker_handle,
                   has_audio, audio_buffer, main, emit, after_stop>>

\* the results of transcribe_partial that leave the failure counter alone
IngestResults == {"text", "busy"}

(* ================================================================== *)
(* LivePreviewManager: the pacing of run_worker, in milliseconds       *)
(* ================================================================== *)

\* settings.live_preview_interval_ms
ConfiguredIntervals == {1000, 5000}

\* the engines a session of SpecPace runs against
PaceKinds == {"GroqCloud", "Whisper"}

\* the length of a clock step
PaceStep == 1000

MinOf(a, b) == IF a < b THEN a ELSE b

MaxOf(a, b) == IF a > b THEN a ELSE b

\* 1 << n
Shl1(n) == 2 ^ n

\* calculate_backoff
calculate_backoff(failures) ==
    IF failures = 0 THEN 0
    ELSE MinOf(BACKOFF_BASE_MS * Shl1(MinOf(failures, 4)), BACKOFF_MAX_MS)

\* is_cloud_model: try_lock on the engine mutex, false when it is held
is_cloud_model(lock, eng) == lock = "free" /\ eng = "GroqCloud"

\* the interval of one iteration of the loop
EffectiveInterval(is_cloud, base, backoff) ==
    IF is_cloud THEN MaxOf(base, CLOUD_MIN_INTERVAL_MS) + backoff
    ELSE base + backoff

NoPace == [pc |-> "none", is_cloud |-> FALSE, t |-> 0, last |-> 0, tried |-> -1,
           gap |-> -1, cfg |-> 0, eff |-> 0, loaded |-> "None", swapped |-> FALSE]

InitPace == pace = NoPace

\* load_model while a session may be running
PaceLoad(k) ==
    /\ load_model(k)
    /\ pace' = [pace EXCEPT !.swapped = @ \/ (pace.pc # "none" /\ k # pace.loaded)]

\* start(): is_model_loaded() takes the engine mutex, the counter is reset
\* and the worker thread is spawned
PaceStart ==
    /\ pace.pc = "none"
    /\ engine_lock = "free"
    /\ engine # "None"
    /\ pace' = [pace EXCEPT !.pc = "spawned", !.loaded = engine]
    /\ consecutive_failures' = 0
    /\ UNCHANGED <<live_preview_enabled, is_active, is_stopping, shutdown_signal,
                   last_transcribed_len, worker_handle, has_audio, audio_buffer,
                   workers, main, emit, after_stop>>

\* run_worker before the loop: is_cloud and last_transcription
PaceBegin ==
    /\ pace.pc = "spawned"
    /\ pace' = [pace EXCEPT !.pc = "top",
                            !.is_cloud = is_cloud_model(engine_lock, engine),
                            !.last = pace.t]

\* the settings are read and the interval of this iteration is computed;
\* the wait ends on a notification or on the timeout
PaceTop(cfg) ==
    /\ pace.pc = "top"
    /\ pace' = [pace EXCEPT !.pc = "check", !.cfg = cfg,
                  !.eff = EffectiveInterval(pace.is_cloud, cfg,
                                            calculate_backoff(consecutive_failures))]

\* the timing check and get_audio_for_transcription; with both passed the
\* worker goes on to call transcribe_partial
PaceCheck(hasAudio) ==
    /\ pace.pc = "check"
    /\ pace' = IF pace.t - pace.last < pace.eff \/ ~hasAudio
               THEN [pace EXCEPT !.pc = "top"]
               ELSE [pace EXCEPT !.pc = "call",
                                 !.gap = IF pace.tried < 0 THEN -1 ELSE pace.t - pace.tried,
                                 !.tried = pace.t]

\* the worker calls transcribe_partial
PaceCall ==
    /\ pace.pc = "call"
    /\ transcribe_partial("nonempty")
    /\ pace' = [pace EXCEPT !.pc = "in_call"]

\* transcribe_partial has returned: the match on its result
PaceResult ==
    /\ pace.pc = "in_call"
    /\ prev.pc = "idle"
    /\ IF prev.ret = "Ok"
       THEN /\ consecutive_failures' = 0
            /\ pace' = [pace EXCEPT !.pc = "top", !.last = pace.t]
       ELSE IF prev.ret = "EngineBusy"
            THEN /\ pace' = [pace EXCEPT !.pc = "top"]
                 /\ UNCHANGED consecutive_failures
            ELSE /\ consecutive_failures' = consecutive_failures + 1
                 /\ pace' = IF consecutive_failures + 1 >= MAX_CONSECUTIVE_FAILURES
                            THEN [pace EXCEPT !.pc = "done"]
                            ELSE [pace EXCEPT !.pc = "top", !.last = pace.t]
    /\ UNCHANGED <<live_preview_enabled, is_active, is_stopping, shutdown_signal,
                   last_transcribed_len, worker_handle, has_audio, audio_buffer,
                   workers, main, emit, after_stop>>

\* time passes
PaceTick ==
    /\ pace.t + PaceStep <= MaxClock
    /\ pace' = [pace EXCEPT !.t = @ + PaceStep]

(* ================================================================== *)
(* AudioRecordingManager: the recorder's audio callback and the        *)
(* samples a recording returns                                         *)
(* ================================================================== *)

\* the samples of one batch the device delivers
BatchLen == 8000

\* the batches captured so far, numbered in capture order
Captured(k) == [i \in 1..k |-> i]

NoTap == [lpm |-> FALSE, cb |-> FALSE, since |-> FALSE, heard |-> 0,
          buf |-> <<>>, ret |-> <<>>, ok |-> FALSE, fwd |-> 0]

\* AudioRecordingManager::new: no manager registered; the recorder that
\* AlwaysOn mode creates at once is built without an audio callback
InitTap == tap = NoTap

\* set_live_preview_manager
set_live_preview_manager ==
    /\ ~tap.lpm
    /\ tap' = [tap EXCEPT !.lpm = TRUE]

\* create_audio_recorder wires the callback of the recorder it builds to
\* the manager registered at that moment; a recorder that exists is kept
Wired(had, has, cb, lpm) == IF ~had /\ has THEN lpm ELSE cb

\* try_start_recording, and the recorder starting an empty buffer
TapStart(b, outcome, startOk) ==
    /\ try_start_recording(b, outcome, startOk)
    /\ tap' = IF state = Idle /\ state' # Idle
              THEN [tap EXCEPT !.cb = Wired(recorder, recorder', tap.cb, tap.lpm),
                               !.since = tap.lpm, !.heard = 0, !.buf = <<>>, !.fwd = 0]
              ELSE [tap EXCEPT !.cb = Wired(recorder, recorder', tap.cb, tap.lpm)]

\* the recorder keeps every batch whether or not the preview took it
RecorderKeeps(buf, x, cb, dropped) == Append(buf, x)

\* the device delivers a batch while recording: the recorder keeps it and
\* hands it to its audio callback, where push_audio may drop it
Deliver(dropped) ==
    /\ state # Idle /\ is_recording /\ recorder
    /\ tap.heard < MaxBatches
    /\ dropped => tap.cb
    /\ tap' = [tap EXCEPT !.heard = @ + 1,
                          !.buf = RecorderKeeps(@, tap.heard + 1, tap.cb, dropped),
                          !.fwd = IF tap.cb THEN @ + 1 ELSE @]
    /\ IF tap.cb /\ ~dropped
       THEN push_audio(BatchLen)
       ELSE UNCHANGED previewVars

\* stop_recording that returns only as many batches as the preview holds
TapStopFromPreview(b, stopOk) ==
    /\ stop_recording(b, BatchLen * Len(tap.buf), stopOk)
    /\ tap' = IF state # Idle /\ StopMatches(state, b)
              THEN [tap EXCEPT !.ret = IF recorder /\ stopOk
                                       THEN SubSeq(tap.buf, 1,
                                                   MinOf(Len(tap.buf), audio_buffer \div BatchLen))
                                       ELSE <<>>,
                               !.ok = recorder /\ stopOk,
                               !.buf = <<>>]
              ELSE tap

\* stop_recording; rec.stop() hands over the recorder's buffer
TapStop(b, stopOk) ==
    /\ stop_recording(b, BatchLen * Len(tap.buf), stopOk)
    /\ tap' = IF state # Idle /\ StopMatches(state, b)
              THEN [tap EXCEPT !.ret = IF recorder /\ stopOk THEN tap.buf ELSE <<>>,
                               !.ok = recorder /\ stopOk,
                               !.buf = <<>>]
              ELSE tap

\* the outcomes of transcribe_partial while a recording runs: a partial
\* text, a busy engine, a backend failure
TapResults == {"text", "busy", "error"}

\* cancel_recording; rec.stop() discards the recorder's buffer
TapCancel ==
    /\ cancel_recording
    /\ tap' = IF state # Idle THEN [tap EXCEPT !.buf = <<>>] ELSE tap

(* ================================================================== *)
(* TranscriptionManager: load_model step by step, with the             *)
(* model-state-changed events it publishes                             *)
(* ================================================================== *)

NoLoad == [pc |-> "idle", kind |-> "None", events |-> <<>>, ret |-> "none"]

InitLoad == loadcall = NoLoad

\* load_model(model_id) is called: loading_started is published
LoadCall(kind) ==
    /\ loadcall.pc = "idle"
    /\ loadcall' = [pc |-> "info", kind |-> kind,
                    events |-> <<"loading_started">>, ret |-> "none"]
    /\ UNCHANGED engineVars

\* get_model_info(model_id) and the is_downloaded check
LoadInfo(found, downloaded) ==
    /\ loadcall.pc = "info"
    /\ loadcall' =
          IF ~found THEN [loadcall EXCEPT !.pc = "idle", !.ret = "Err"]
          ELSE IF ~downloaded
               THEN [loadcall EXCEPT !.pc = "idle", !.ret = "Err",
                                     !.events = Append(@, "loading_failed")]
               ELSE [loadcall EXCEPT !.pc = "path"]
    /\ UNCHANGED engineVars

\* get_model_path(model_id)? for every engine type but the cloud one
LoadPath(resolved) ==
    /\ loadcall.pc = "path"
    /\ loadcall' =
          IF loadcall.kind # "GroqCloud" /\ ~resolved
          THEN [loadcall EXCEPT !.pc = "idle", !.ret = "Err"]
          ELSE [loadcall EXCEPT !.pc = "backend"]
    /\ UNCHANGED engineVars

\* a backend that refuses the file also drops the engine loaded before
LoadBackendDropsEngine(loaded) ==
    /\ loadcall.pc = "backend"
    /\ loadcall' =
          IF loadcall.kind \in LocalKinds /\ ~loaded
          THEN [loadcall EXCEPT !.pc = "idle", !.ret = "Err",
                                !.events = Append(@, "loading_failed")]
          ELSE [loadcall EXCEPT !.pc = "store"]
    /\ engine_lock = "free"
    /\ engine' = IF loadcall.kind \in LocalKinds /\ ~loaded THEN "None" ELSE engine
    /\ UNCHANGED <<engine_lock, current_model_id, last_activity, is_loading,
                   loading_lock, waiters, loaders, initiators, fin, prev>>

\* the engine is built: a local backend loads the file and may refuse it
LoadBackend(loaded) ==
    /\ loadcall.pc = "backend"
    /\ loadcall' =
          IF loadcall.kind \in LocalKinds /\ ~loaded
          THEN [loadcall EXCEPT !.pc = "idle", !.ret = "Err",
                                !.events = Append(@, "loading_failed")]
          ELSE [loadcall EXCEPT !.pc = "store"]
    /\ UNCHANGED engineVars

\* the engine and the model id are stored, loading_completed is published
LoadStore ==
    /\ loadcall.pc = "store"
    /\ engine_lock = "free"
    /\ engine' = loadcall.kind
    /\ current_model_id' = loadcall.kind
    /\ loadcall' = [loadcall EXCEPT !.pc = "idle", !.ret = "Ok",
                                    !.events = Append(@, "loading_completed")]
    /\ UNCHANGED <<engine_lock, last_activity, is_loading, loading_lock, waiters,
                   loaders, initiators, fin, prev>>

(* ================================================================== *)
(* transcribe: post-processing of the backend's text                   *)
(* ================================================================== *)

\* a text is the source it came from followed by the stages applied to it
apply_custom_words(text, custom_words) ==
    IF custom_words = <<>> THEN text ELSE Append(text, "custom_words")

filter_transcription_output(text) == Append(text, "filter")

apply_corrections(text) == Append(text, "corrections")

apply_snippets(text, snippets) ==
    IF snippets = <<>> THEN text ELSE Append(text, "snippets")

apply_formatting(text) == Append(text, "formatting")

\* the settings read by the stages; a list is empty or holds one entry
Settings ==
    [custom_words : {<<>>, <<"w">>},
     correction_detection_enabled : BOOLEAN,
     snippets_enabled : BOOLEAN,
     snippets : {<<>>, <<"s">>},
     auto_format_enabled : BOOLEAN]

NoSettings ==
    [custom_words |-> <<>>, correction_detection_enabled |-> FALSE,
     snippets_enabled |-> FALSE, snippets |-> <<>>,
     auto_format_enabled |-> FALSE]

InitPost == post = [pc |-> "idle", settings |-> NoSettings, text |-> <<>>]

\* the stage after `pc`, snippet expansion running ahead of the corrections
StageAfterSnippetsFirst(pc) ==
    CASE pc = "custom_words" -> "filter"
      [] pc = "filter" -> "snippets"
      [] pc = "snippets" -> "corrections"
      [] pc = "corrections" -> "formatting"
      [] pc = "formatting" -> "done"

\* the statement that follows the stage `pc` in transcribe
StageAfter(pc) ==
    CASE pc = "custom_words" -> "filter"
      [] pc = "filter" -> "corrections"
      [] pc = "corrections" -> "snippets"
      [] pc = "snippets" -> "formatting"
      [] pc = "formatting" -> "done"

\* text_for_processing = diarized_text.unwrap_or(result.text)
PostBegin(s, diarized) ==
    /\ post.pc = "idle"
    /\ post' = [pc |-> "custom_words", settings |-> s,
                text |-> IF diarized THEN <<"diarized">> ELSE <<"raw">>]

StageCustomWords ==
    /\ post.pc = "custom_words"
    /\ post' = [post EXCEPT
                  !.pc = StageAfter("custom_words"),
                  !.text = IF post.settings.custom_words # <<>>
                           THEN apply_custom_words(post.text, post.settings.custom_words)
                           ELSE post.text]

StageFilter ==
    /\ post.pc = "filter"
    /\ post' = [post EXCEPT
                  !.pc = StageAfter("filter"),
                  !.text = filter_transcription_output(post.text)]

StageCorrections ==
    /\ post.pc = "corrections"
    /\ post' = [post EXCEPT
                  !.pc = StageAfter("corrections"),
                  !.text = IF post.settings.correction_detection_enabled
                           THEN apply_corrections(post.text)
                           ELSE post.text]

StageSnippets ==
    /\ post.pc = "snippets"
    /\ post' = [post EXCEPT
                  !.pc = StageAfter("snippets"),
                  !.text = IF post.settings.snippets_enabled /\ post.settings.snippets # <<>>
                           THEN apply_snippets(post.text, post.settings.snippets)
                           ELSE post.text]

StageFormatting ==
    /\ post.pc = "formatting"
    /\ post' = [post EXCEPT
                  !.pc = StageAfter("formatting"),
                  !.text = IF post.settings.auto_format_enabled
                           THEN apply_formatting(post.text)
                           ELSE post.text]

\* Ok(final_result)
PostReturn ==
    /\ post.pc = "done"
    /\ post' = [post EXCEPT !.pc = "idle"]

(* ================================================================== *)
(* transcribe: speaker diarization ahead of the post-processing        *)
(* ================================================================== *)

SAMPLE_RATE == 16000

MIN_AUDIO_DURATION_SECS == 1

\* the recordings handed to transcribe, by their number of samples
DiarLens == {SAMPLE_RATE - 1, SAMPLE_RATE}

\* how the app holds the DiarizationManager: not registered as a state,
\* registered with a status other than Ready, or registered and Ready
DiarManagers == {"absent", "not_ready", "ready"}

\* what the segmentation and clustering of a long enough recording give
DiarRuns == {"err", "empty", "segments"}

NoDiar == [enabled |-> FALSE, mgr |-> "absent", len |-> 0, out |-> "not_run"]

InitDiar == diar = NoDiar

\* diarize ignores the minimum duration and always runs the models
diarize_any_length(len, run) == run

\* DiarizationManager::diarize: Ok(empty) for less than one second of audio,
\* else Err, Ok(empty) or Ok(segments) as the models decide
diarize(len, run) ==
    IF len < SAMPLE_RATE * MIN_AUDIO_DURATION_SECS THEN "empty" ELSE run

\* the outcome of the diarization block of transcribe: "not_run" when
\* diarize was not called
DiarOutcome(enabled, mgr, len, run) ==
    IF ~enabled THEN "not_run"
    ELSE IF mgr = "absent" THEN "not_run"
    ELSE IF mgr = "not_ready" THEN "not_run"
    ELSE diarize(len, run)

\* diarized_text is Some exactly when diarize returned segments
diarized_text(out) == out = "segments"

\* transcribe from the backend's result to the first post-processing stage
TranscribeDiarize(s, enabled, mgr, len, run) ==
    LET out == DiarOutcome(enabled, mgr, len, run)
    IN  /\ PostBegin(s, diarized_text(out))
        /\ diar' = [enabled |-> enabled, mgr |-> mgr, len |-> len,
                    out |-> out]

(* ================================================================== *)
(* groq_transcription: transcribe and transcribe_multilingual          *)
(* ================================================================== *)

MAX_RETRIES == 3

INITIAL_RETRY_DELAY == 500

GroqFns == {"transcribe", "transcribe_multilingual"}

\* reqwest's send() failing, by what the error answers to is_timeout and
\* is_connect
ReqErrors == {"timeout", "connect", "request"}

\* the HTTP status of a response, and what the body of an error response
\* says once parsed ("unparsed" when it is no GroqErrorResponse)
Statuses == {200, 400, 401, 429, 500}

Bodies == {"invalid_api_key", "rate_limit", "audio", "plain", "unparsed"}

\* what one request comes to
Replies ==
    [t : {"req_error"}, e : ReqErrors]
      \cup [t : {"response"}, status : Statuses, body : Bodies, json : BOOLEAN]

\* every kind counts as retryable
is_retryable_always(kind) == TRUE

\* GroqErrorKind::is_retryable
is_retryable(kind) ==
    kind \in {"Timeout", "NetworkError", "ServerError", "RateLimited"}

\* classify_error(status, error_response, req_error)
classify_error(r) ==
    IF r.t = "req_error"
    THEN CASE r.e = "timeout" -> "Timeout"
           [] r.e = "connect" -> "NetworkError"
           [] OTHER -> "Other"
    ELSE CASE r.status = 401 -> "InvalidApiKey"
           [] r.status = 429 -> "RateLimited"
           [] r.status \in 500..599 -> "ServerError"
           [] OTHER ->
                CASE r.body = "invalid_api_key" -> "InvalidApiKey"
                  [] r.body = "rate_limit" -> "RateLimited"
                  [] r.body = "audio" -> "AudioError"
                  [] OTHER -> "Other"

NoGroq ==
    [pc |-> "idle", fn |-> "transcribe", attempt |-> 0, retry_delay |-> 0,
     requests |-> 0, slept |-> <<>>, log |-> <<>>, ret |-> "none"]

InitGroq == groq = NoGroq

\* the call up to the retry loop: the key, the model name, the WAV encoding
\* and the HTTP client, any of which returns an error at once
GroqCall(fn, api_key_empty, known_model, built) ==
    /\ groq.pc = "idle"
    /\ groq' =
         IF api_key_empty
         THEN [NoGroq EXCEPT !.fn = fn, !.ret = "MissingApiKey"]
         ELSE IF ~known_model
         THEN [NoGroq EXCEPT !.fn = fn, !.ret = "UnknownModel"]
         ELSE IF ~built
         THEN [NoGroq EXCEPT !.fn = fn, !.ret = "SetupError"]
         ELSE [NoGroq EXCEPT !.fn = fn, !.pc = "top",
                             !.retry_delay = INITIAL_RETRY_DELAY]

\* the head of one iteration of `for attempt in 0..=MAX_RETRIES`: from the
\* second attempt on, sleep retry_delay and double it
GroqTop ==
    /\ groq.pc = "top"
    /\ groq' =
         IF groq.attempt > MAX_RETRIES
         THEN [groq EXCEPT !.pc = "idle", !.ret = "RetriesExhausted"]
         ELSE IF groq.attempt > 0
         THEN [groq EXCEPT !.pc = "send",
                           !.slept = Append(groq.slept, groq.retry_delay),
                           !.retry_delay = groq.retry_delay * 2]
         ELSE [groq EXCEPT !.pc = "send"]

\* the request of one attempt and what the loop does with its reply
GroqSend(r) ==
    /\ groq.pc = "send"
    /\ LET sent == [groq EXCEPT !.requests = groq.requests + 1]
           kind == classify_error(r)
       IN  groq' =
             IF r.t = "response" /\ r.status \in 200..299
             THEN IF r.json
                  THEN [sent EXCEPT !.pc = "idle", !.ret = "Ok",
                                    !.log = Append(groq.log, "Ok")]
                  ELSE [sent EXCEPT !.pc = "idle", !.ret = "ParseError",
                                    !.log = Append(groq.log, "ParseError")]
             ELSE IF is_retryable(kind) /\ groq.attempt < MAX_RETRIES
             THEN [sent EXCEPT !.pc = "top", !.attempt = groq.attempt + 1,
                               !.log = Append(groq.log, kind)]
             ELSE [sent EXCEPT !.pc = "idle", !.ret = kind,
                               !.log = Append(groq.log, kind)]

(* ================================================================== *)
(* audio_toolkit::text and snippets: the stages on a text.  A text is  *)
(* a sequence of tokens: a word, a punctuation mark, a space or a      *)
(* newline.  All words are lower case, as the patterns ignore case.    *)
(* ================================================================== *)

\* \s
Spaces == {" ", "\n"}

\* the punctuation marks of the vocabulary
Marks == {",", ".", "!", "?", ":"}

\* \w+ between two \b
IsWord(t) == t \notin Spaces /\ t \notin Marks

From(t, k) == SubSeq(t, k, Len(t))

RECURSIVE SkipSpaces(_, _)
\* the first index at or after k that holds no whitespace
SkipSpaces(t, k) ==
    IF k <= Len(t) /\ t[k] \in Spaces THEN SkipSpaces(t, k + 1) ELSE k

RECURSIVE WordEnd(_, _)
\* the first index at or after k that holds whitespace
WordEnd(t, k) ==
    IF k <= Len(t) /\ t[k] \notin Spaces THEN WordEnd(t, k + 1) ELSE k

RECURSIVE TrimEnd(_)
TrimEnd(t) ==
    IF t # <<>> /\ t[Len(t)] \in Spaces THEN TrimEnd(SubSeq(t, 1, Len(t) - 1)) ELSE t

TrimStart(t) == From(t, SkipSpaces(t, 1))

\* str::trim
Trim(t) == TrimEnd(TrimStart(t))

RECURSIVE CollapseSpaces(_)
\* MULTI_SPACE_PATTERN.replace_all(t, " "): a run of two or more
\* whitespace characters becomes one space
CollapseSpaces(t) ==
    IF t = <<>> THEN <<>>
    ELSE IF t[1] \in Spaces
    THEN LET k == SkipSpaces(t, 1)
         IN  (IF k > 2 THEN <<" ">> ELSE <<t[1]>>) \o CollapseSpaces(From(t, k))
    ELSE <<t[1]>> \o CollapseSpaces(Tail(t))

RECURSIVE SplitWhitespace(_)
\* str::split_whitespace: the words, each a sequence of tokens
SplitWhitespace(t) ==
    LET s == TrimStart(t)
    IN  IF s = <<>> THEN <<>>
        ELSE LET e == WordEnd(s, 1)
             IN  <<SubSeq(s, 1, e - 1)>> \o SplitWhitespace(From(s, e))

RECURSIVE JoinSpace(_)
\* words.join(" ")
JoinSpace(ws) ==
    IF ws = <<>> THEN <<>>
    ELSE IF Len(ws) = 1 THEN ws[1]
    ELSE ws[1] \o <<" ">> \o JoinSpace(Tail(ws))

\* apply_custom_words with a configured word that is far, in edit distance
\* and in sound, from every word of the vocabulary: no word is replaced
\* and the words are joined again by single spaces
apply_custom_words_on(text, custom_words) ==
    IF custom_words = <<>> THEN text ELSE JoinSpace(SplitWhitespace(text))

FILLER_WORDS ==
    {"uh", "um", "uhm", "umm", "uhh", "uhhh", "ah", "eh", "hmm", "hm", "mmm",
     "mm", "mh", "ha", "ehh"}

\* the words of the vocabulary of one or two letters
ShortWords == {"at", "uh", "um", "ah", "eh", "hm", "mm", "mh", "ha", "no", "i"}

RECURSIVE RemoveFillers(_)
\* FILLER_PATTERNS: \b<filler>\b[,.]? replaced by nothing
RemoveFillers(t) ==
    IF t = <<>> THEN <<>>
    ELSE IF t[1] \in FILLER_WORDS
    THEN IF Len(t) > 1 /\ t[2] \in {",", "."}
         THEN RemoveFillers(From(t, 3))
         ELSE RemoveFillers(Tail(t))
    ELSE <<t[1]>> \o RemoveFillers(Tail(t))

RECURSIVE RunLength(_, _)
\* how many of the first words of ws equal ws[1], c of them counted so far
RunLength(ws, c) ==
    IF c < Len(ws) /\ ws[c + 1] = ws[1] THEN RunLength(ws, c + 1) ELSE c

RECURSIVE CollapseWords(_)
CollapseWords(ws) ==
    IF ws = <<>> THEN <<>>
    ELSE LET short == Len(ws[1]) = 1 /\ ws[1][1] \in ShortWords
             count == IF short THEN RunLength(ws, 1) ELSE 1
             step == IF count >= 3 THEN count ELSE 1
         IN  <<ws[1]>> \o CollapseWords(SubSeq(ws, step + 1, Len(ws)))

collapse_stutters(text) ==
    LET words == SplitWhitespace(text)
    IN  IF words = <<>> THEN text ELSE JoinSpace(CollapseWords(words))

filter_transcription_output_on(text) ==
    Trim(CollapseSpaces(collapse_stutters(RemoveFillers(text))))

\* the length in tokens of (?:actually|I mean) at k, 0 when it is not there
CueLen(t, k) ==
    IF k <= Len(t) /\ t[k] = "actually" THEN 1
    ELSE IF k + 2 <= Len(t) /\ t[k] = "i" /\ t[k + 1] = " " /\ t[k + 2] = "mean"
    THEN 3
    ELSE 0

\* CORRECTION_ACTUALLY from the word at i: where \s+(?:,?\s*)? ends and the
\* cue begins, 0 when the pattern does not match there.  The comma is only
\* looked for after at least one whitespace character.
CueAt(t, i) ==
    LET a == SkipSpaces(t, i + 1)
    IN  IF a = i + 1 THEN 0
        ELSE IF CueLen(t, a) > 0 THEN a
        ELSE IF a <= Len(t) /\ t[a] = ","
        THEN LET b == SkipSpaces(t, a + 1)
             IN  IF CueLen(t, b) > 0 THEN b ELSE 0
        ELSE 0

\* the word that \s+(\w+)\b takes after the cue at c, 0 when there is none
AfterCue(t, c) ==
    LET e == c + CueLen(t, c)
        y == SkipSpaces(t, e)
    IN  IF y > e /\ y <= Len(t) /\ IsWord(t[y]) THEN y ELSE 0

RECURSIVE ReplaceActually(_)
\* CORRECTION_ACTUALLY.replace_all(text, "$2")
ReplaceActually(t) ==
    IF t = <<>> THEN <<>>
    ELSE LET c == IF IsWord(t[1]) THEN CueAt(t, 1) ELSE 0
             y == IF c > 0 THEN AfterCue(t, c) ELSE 0
         IN  IF y > 0
             THEN <<t[y]>> \o ReplaceActually(From(t, y + 1))
             ELSE <<t[1]>> \o ReplaceActually(Tail(t))

\* no word of the vocabulary holds one of these inside it
RestartWords == {"wait", "no", "sorry"}

\* CORRECTION_WAIT_NO at k: where (.+)$ begins, 0 when it does not match
RestartRest(t, k) ==
    LET p == IF k + 1 <= Len(t) /\ t[k + 1] \in {",", "."} THEN k + 2 ELSE k + 1
        r == SkipSpaces(t, p)
    IN  IF r > p /\ r <= Len(t) THEN r
        ELSE IF r > p + 1 THEN r - 1
        ELSE 0

RECURSIVE RestartAt(_, _)
\* the start of the leftmost match of CORRECTION_WAIT_NO at or after k
RestartAt(t, k) ==
    IF k > Len(t) THEN 0
    ELSE IF t[k] \in RestartWords /\ RestartRest(t, k) > 0 THEN k
    ELSE RestartAt(t, k + 1)

RECURSIVE LastBreak(_, _)
\* the index of the last of . ! ? , before k, 0 when there is none
LastBreak(t, k) ==
    IF k <= 1 THEN 0
    ELSE IF t[k - 1] \in {".", "!", "?", ","} THEN k - 1
    ELSE LastBreak(t, k - 1)

KeepRestart(t) ==
    LET k == RestartAt(t, 1)
    IN  IF k = 0 THEN t
        ELSE LET last_break == LastBreak(t, k)
             IN  Trim(SubSeq(t, 1, last_break))
                   \o (IF last_break > 0 THEN <<" ">> ELSE <<>>)
                   \o Trim(From(t, RestartRest(t, k)))

apply_corrections_on(text) ==
    IF text = <<>> THEN text
    ELSE Trim(CollapseSpaces(KeepRestart(ReplaceActually(text))))

RECURSIVE Expand(_, _)
\* one whole-word snippet: its trigger replaced by its expansion
Expand(t, sn) ==
    IF t = <<>> THEN <<>>
    ELSE (IF t[1] = sn.trigger THEN sn.expansion ELSE <<t[1]>>) \o Expand(Tail(t), sn)

RECURSIVE apply_snippets_on(_, _)
apply_snippets_on(text, snippets) ==
    IF snippets = <<>> \/ text = <<>> THEN text
    ELSE apply_snippets_on(Expand(text, Head(snippets)), Tail(snippets))

NumberWords == {"one", "two", "three", "four", "five", "six", "seven", "eight", "nine", "ten"}

number_word_to_number(w) ==
    CASE w = "one" -> "1" [] w = "two" -> "2" [] w = "three" -> "3"
      [] w = "four" -> "4" [] w = "five" -> "5" [] w = "six" -> "6"
      [] w = "seven" -> "7" [] w = "eight" -> "8" [] w = "nine" -> "9"
      [] w = "ten" -> "10"

\* NUMERIC_WORD_PATTERN at k: the index after the match, 0 when none
NumberItem(t, k) ==
    IF k > Len(t) \/ t[k] \notin NumberWords THEN 0
    ELSE LET p == IF k + 1 <= Len(t) /\ t[k + 1] \in {",", ":"} THEN k + 2 ELSE k + 1
             r == SkipSpaces(t, p)
         IN  IF r > p THEN r ELSE 0

RECURSIVE CountItems(_, _)
\* NUMERIC_WORD_PATTERN.find_iter(text).count()
CountItems(t, k) ==
    IF k > Len(t) THEN 0
    ELSE IF NumberItem(t, k) > 0 THEN 1 + CountItems(t, NumberItem(t, k))
    ELSE CountItems(t, k + 1)

RECURSIVE TrimEndBlanks(_)
\* trim_end_matches(' ')
TrimEndBlanks(t) ==
    IF t # <<>> /\ t[Len(t)] = " " THEN TrimEndBlanks(SubSeq(t, 1, Len(t) - 1)) ELSE t

RECURSIVE format_numeric_word_list(_, _, _, _, _)
format_numeric_word_list(t, k, last_end, is_first_match, result) ==
    IF k > Len(t)
    THEN result \o Trim(From(t, last_end))
    ELSE IF NumberItem(t, k) > 0
    THEN LET before == SubSeq(t, last_end, k - 1)
             trimmed == TrimEndBlanks(before)
             lead == IF is_first_match
                     THEN IF trimmed = <<>> THEN <<>>
                          ELSE IF trimmed[Len(trimmed)] = "\n" THEN trimmed
                          ELSE trimmed \o <<"\n">>
                     ELSE Trim(before) \o <<"\n">>
             item == <<number_word_to_number(t[k]), ".", " ">>
         IN  format_numeric_word_list(t, NumberItem(t, k), NumberItem(t, k), FALSE,
                                      result \o lead \o item)
    ELSE format_numeric_word_list(t, k + 1, last_end, is_first_match, result)

\* the vocabulary has no ordinal word: only the number words make a list
detect_and_format_lists(text) ==
    IF CountItems(text, 1) >= 2
    THEN format_numeric_word_list(text, 1, 1, TRUE, <<>>)
    ELSE text

RECURSIVE LineEnd(_, _)
LineEnd(t, k) == IF k <= Len(t) /\ t[k] # "\n" THEN LineEnd(t, k + 1) ELSE k

RECURSIVE TrimLines(_)
\* every line trimmed, the lines joined by newlines again
TrimLines(t) ==
    LET e == LineEnd(t, 1)
    IN  IF e > Len(t) THEN Trim(t)
        ELSE Trim(SubSeq(t, 1, e - 1)) \o <<"\n">> \o TrimLines(From(t, e + 1))

RECURSIVE SqueezeNewlines(_)
\* \n{3,} replaced by two newlines
SqueezeNewlines(t) ==
    IF Len(t) >= 3 /\ t[1] = "\n" /\ t[2] = "\n" /\ t[3] = "\n"
    THEN SqueezeNewlines(Tail(t))
    ELSE IF t = <<>> THEN <<>>
    ELSE <<t[1]>> \o SqueezeNewlines(Tail(t))

clean_formatting(text) == Trim(TrimLines(SqueezeNewlines(text)))

\* the vocabulary has no verbal command: the deletion passes only trim
process_verbal_commands(text) == Trim(text)

\* apply_formatting with auto_lists and verbal_commands both on
apply_formatting_on(text) ==
    IF text = <<>> THEN text
    ELSE clean_formatting(detect_and_format_lists(process_verbal_commands(text)))

\* settings with every stage enabled
AllCustomWords == <<"paperflow">>

AllSnippets == <<[trigger |-> "brb", expansion |-> <<"be", " ", "right", " ", "back">>]>>

\* the backend texts: "at" (or a stutter of it), "two", an optional comma,
\* an optional interjection, "actually three" and an optional tail
RawHeads == {<<"at">>, <<"at", " ", "at", " ", "at">>}

RawCommas == {<<>>, <<",">>, <<" ", ",">>}

RawFillers ==
    {<<>>, <<" ", "um">>, <<" ", "um", ",">>, <<" ", " ", "uh", ".">>,
     <<" ", "no", ",">>}

RawTails == {<<>>, <<" ", "at", " ", "brb">>}

RawTexts ==
    {h \o <<" ", "two">> \o c \o f \o <<" ", "actually", " ", "three">> \o tl :
        h \in RawHeads, c \in RawCommas, f \in RawFillers, tl \in RawTails}

NoTxt == [pc |-> "idle", raw |-> <<>>, text |-> <<>>]

InitTxt == txt = NoTxt

\* text_for_processing is the backend's text
TextBegin(raw) ==
    /\ txt.pc = "idle"
    /\ txt' = [pc |-> "custom_words", raw |-> raw, text |-> raw]

TextCustomWords ==
    /\ txt.pc = "custom_words"
    /\ txt' = [txt EXCEPT !.pc = "filter",
                          !.text = apply_custom_words_on(txt.text, AllCustomWords)]

TextFilter ==
    /\ txt.pc = "filter"
    /\ txt' = [txt EXCEPT !.pc = "corrections",
                          !.text = filter_transcription_output_on(txt.text)]

TextCorrections ==
    /\ txt.pc = "corrections"
    /\ txt' = [txt EXCEPT !.pc = "snippets",
                          !.text = apply_corrections_on(txt.text)]

TextSnippets ==
    /\ txt.pc = "snippets"
    /\ txt' = [txt EXCEPT !.pc = "formatting",
                          !.text = apply_snippets_on(txt.text, AllSnippets)]

TextFormatting ==
    /\ txt.pc = "formatting"
    /\ txt' = [txt EXCEPT !.pc = "done", !.text = apply_formatting_on(txt.text)]

\* Ok(final_result)
TextReturn ==
    /\ txt.pc = "done"
    /\ txt' = [txt EXCEPT !.pc = "idle"]

(* ================================================================== *)
(* LivePreviewManager: the results of transcribe_partial as an         *)
(* observer of the session counts them                                 *)
(* ================================================================== *)

\* fails: the failures other than "Engine busy" since the last success or
\* the start of the session; fatal: the max_failures errors published since
\* the start of the session; quiet: no busy result changed anything
NoTally == [fails |-> 0, fatal |-> 0, quiet |-> TRUE]

InitTally == tally = NoTally

\* start(): the observer begins anew where start() resets the session
TallyStart(spawnOk) ==
    /\ start(spawnOk)
    /\ tally' = IF ~live_preview_enabled \/ engine = "None" \/ is_active
                THEN tally
                ELSE NoTally

\* the worker w gets r back from transcribe_partial
TallyTranscribed(w, r) ==
    /\ WorkerTranscribed(w, r)
    /\ tally' =
         IF r \in {"text", "empty"} THEN [tally EXCEPT !.fails = 0]
         ELSE IF r = "busy"
         THEN [tally EXCEPT !.quiet = tally.quiet
                                        /\ consecutive_failures' = consecutive_failures
                                        /\ last_transcribed_len' = last_transcribed_len
                                        /\ emit' = emit]
         ELSE [tally EXCEPT !.fails = tally.fails + 1,
                            !.fatal = IF emit' # emit THEN tally.fatal + 1
                                      ELSE tally.fatal]

(* ================================================================== *)
(* LivePreviewManager: the audio check of the worker against the       *)
(* samples the session has taken in                                    *)
(* ================================================================== *)

\* n: the batches and total: the samples appended since start(); mark: the total when the
\* snapshot of the last successful partial transcription was taken; pend:
\* per worker, the total at the snapshot it is transcribing; decided: a due
\* iteration has reached the audio check, asked: it requested a
\* transcription, should: the buffer held at least MIN_AUDIO_SAMPLES and
\* more than MIN_NEW_AUDIO_SAMPLES samples had come in since the mark
NoIngest ==
    [n |-> 0, total |-> 0, mark |-> 0, pend |-> [w \in WorkerIds |-> 0],
     decided |-> FALSE, asked |-> FALSE, should |-> FALSE]

InitIngested == ingest = NoIngest

\* the batches of the audio callback: half a second, and one that fills the
\* window up to half a second below its cap
WindowBatches == {8000, MAX_BUFFER_SAMPLES - 8000}

EvictStart(spawnOk) ==
    /\ start(spawnOk)
    /\ ingest' = IF ~live_preview_enabled \/ engine = "None" \/ is_active
                 THEN ingest
                 ELSE NoIngest

EvictPush(n) ==
    /\ ingest.n < MaxPushes
    /\ PushAudio(n)
    /\ ingest' = IF ~is_active \/ is_stopping
                 THEN ingest
                 ELSE [ingest EXCEPT !.n = ingest.n + 1, !.total = ingest.total + n]

EvictRecheck(w, due) ==
    /\ WorkerRecheck(w, due)
    /\ ingest' =
         IF MustExit(shutdown_signal, is_stopping) \/ ~due
         THEN [ingest EXCEPT !.decided = FALSE]
         ELSE [ingest EXCEPT
                 !.decided = TRUE,
                 !.asked = workers'[w].pc = "transcribing",
                 !.should = audio_buffer >= MIN_AUDIO_SAMPLES
                              /\ ingest.total - ingest.mark > MIN_NEW_AUDIO_SAMPLES,
                 !.pend[w] = ingest.total]

EvictTranscribed(w, r) ==
    /\ WorkerTranscribed(w, r)
    /\ ingest' = IF r \in {"text", "empty"}
                 THEN [ingest EXCEPT !.mark = ingest.pend[w], !.decided = FALSE]
                 ELSE [ingest EXCEPT !.decided = FALSE]

(* ================================================================== *)
(* DiarizationManager::assign_speakers_to_segments                     *)
(* ================================================================== *)

\* transcript segments (start_ms, end_ms, text), empty ones included
TranscriptSegments ==
    [start : 0..MaxTime, end : 0..MaxTime, text : {"t"}]

\* diarization segments
DiarizedSegments ==
    {d \in [start_ms : 0..MaxTime, end_ms : 0..MaxTime, speaker : {"SPEAKER_00", "SPEAKER_01"}] :
        d.start_ms < d.end_ms}

\* the lists of at most two segments
ShortLists(S) == {<<>>} \cup {<<x>> : x \in S} \cup {<<x, y>> : x \in S, y \in S}

\* the overlap of a transcript segment and a diarization segment, 0 when
\* the filter_map drops the pair
OverlapDuration(t, d) ==
    LET overlap_start == MaxOf(t.start, d.start_ms)
        overlap_end == MinOf(t.end, d.end_ms)
    IN  IF overlap_start < overlap_end THEN overlap_end - overlap_start ELSE 0

\* the first overlapping diarization segment gives the speaker
FirstOverlapSpeaker(t, ds) ==
    LET hits == {i \in 1..Len(ds) : OverlapDuration(t, ds[i]) > 0}
    IN  IF hits = {} THEN "None"
        ELSE ds[CHOOSE i \in hits : \A j \in hits : i <= j].speaker

\* max_by_key over the overlapping segments: the last of the greatest
BestSpeaker(t, ds) ==
    LET hits == {i \in 1..Len(ds) : OverlapDuration(t, ds[i]) > 0}
    IN  IF hits = {} THEN "None"
        ELSE ds[CHOOSE i \in hits :
                  \A j \in hits :
                     \/ OverlapDuration(t, ds[j]) < OverlapDuration(t, ds[i])
                     \/ (OverlapDuration(t, ds[j]) = OverlapDuration(t, ds[i]) /\ j <= i)].speaker

assign_speakers_to_segments(ts, ds) ==
    IF ds = <<>>
    THEN [i \in 1..Len(ts) |-> [start |-> ts[i].start, end |-> ts[i].end,
                                text |-> ts[i].text, speaker |-> "None"]]
    ELSE [i \in 1..Len(ts) |-> [start |-> ts[i].start, end |-> ts[i].end,
                                text |-> ts[i].text, speaker |-> BestSpeaker(ts[i], ds)]]

NoAssign == [pc |-> "idle", ts |-> <<>>, ds |-> <<>>, out |-> <<>>]

InitAssign == asg = NoAssign

AssignCall(ts, ds) ==
    /\ asg.pc \in {"idle", "returned"}
    /\ asg' = [pc |-> "done", ts |-> ts, ds |-> ds,
               out |-> assign_speakers_to_segments(ts, ds)]

\* the caller takes the result
AssignReturn ==
    /\ asg.pc = "done"
    /\ asg' = [NoAssign EXCEPT !.pc = "returned"]

(* ================================================================== *)
(* transcribe: the text with speaker labels.  The text is a sequence   *)
(* of pieces: <<"label", speaker>> for "[speaker]: ", <<"text", t>>    *)
(* and <<"nl">> for a newline                                          *)
(* ================================================================== *)

RECURSIVE FormatLabelled(_, _, _)
\* the loop over labeled_segments, last_speaker being "none" for None
FormatLabelled(labeled, last_speaker, formatted_output) ==
    IF labeled = <<>> THEN formatted_output
    ELSE LET current_speaker == IF labeled[1].speaker = "None" THEN "Unknown"
                                ELSE labeled[1].speaker
             opened == IF last_speaker # current_speaker
                       THEN (IF formatted_output # <<>> THEN <<<<"nl">>>> ELSE <<>>)
                              \o <<<<"label", current_speaker>>>>
                       ELSE <<>>
         IN  FormatLabelled(Tail(labeled), current_speaker,
                            formatted_output \o opened \o <<<<"text", labeled[1].text>>>>)

\* diarized_text for a non-empty list of diarization segments
LabelledText(ts, ds, has_segments) ==
    IF has_segments
    THEN FormatLabelled(assign_speakers_to_segments(ts, ds), "none", <<>>)
    ELSE <<<<"label", ds[1].speaker>>, <<"text", "t">>>>

NoLabel == [pc |-> "idle", ts |-> <<>>, ds |-> <<>>, segs |-> FALSE, out |-> <<>>]

InitLabel == lab = NoLabel

\* transcribe from the diarization result to diarized_text
LabelCall(ts, ds, has_segments) ==
    /\ lab.pc \in {"idle", "returned"}
    /\ ds # <<>>
    /\ lab' = [pc |-> "done", ts |-> IF has_segments THEN ts ELSE <<>>, ds |-> ds,
               segs |-> has_segments, out |-> LabelledText(ts, ds, has_segments)]

\* text_for_processing takes the labelled text
LabelReturn ==
    /\ lab.pc = "done"
    /\ lab' = [NoLabel EXCEPT !.pc = "returned"]

(* ================================================================== *)
(* load_model and unload_model called from several threads: the engine *)
(* and the model id are stored in two lock sections, one after the     *)
(* other, and another thread may run between them                      *)
(* ================================================================== *)

NoRace == [pc |-> "idle", kind |-> "None"]

InitRace == racers = [t \in ThreadIds |-> NoRace]

\* load_model up to the loaded engine; a failure returns before any store
RaceLoad(t, kind, ok) ==
    /\ racers[t].pc = "idle"
    /\ racers' = [racers EXCEPT ![t] = IF ok THEN [pc |-> "engine", kind |-> kind]
                                           ELSE NoRace]
    /\ UNCHANGED engineVars

\* unload_model is entered: by a command, the idle watcher or
\* maybe_unload_immediately
RaceUnload(t) ==
    /\ racers[t].pc = "idle"
    /\ racers' = [racers EXCEPT ![t] = [pc |-> "engine", kind |-> "None"]]
    /\ UNCHANGED engineVars

\* the lock section that stores the engine
RaceStoreEngine(t) ==
    /\ racers[t].pc = "engine"
    /\ engine_lock = "free"
    /\ engine' = racers[t].kind
    /\ racers' = [racers EXCEPT ![t].pc = "model"]
    /\ UNCHANGED <<engine_lock, current_model_id, last_activity, is_loading, loading_lock,
                   waiters, loaders, initiators, fin, prev>>

\* the lock section that stores current_model_id, and the return
RaceStoreModel(t) ==
    /\ racers[t].pc = "model"
    /\ current_model_id' = racers[t].kind
    /\ racers' = [racers EXCEPT ![t] = NoRace]
    /\ UNCHANGED <<engine, engine_lock, last_activity, is_loading, loading_lock,
                   waiters, loaders, initiators, fin, prev>>

(* ================================================================== *)
(* The idle watcher and a model that has just been loaded              *)
(* ================================================================== *)

InitFresh == loaded_at = 0

\* load_model, called directly or by the thread of initiate_model_load;
\* loaded_at notes when the engine was stored
FreshLoad(outcome) ==
    /\ load_model(outcome)
    /\ loaded_at' = IF outcome = "failed" THEN loaded_at ELSE now

(* ================================================================== *)
(* Specifications                                                      *)
(* ================================================================== *)

InitMore == InitDiar /\ InitGroq /\ InitTxt /\ InitTally /\ InitIngested /\ InitAssign /\ InitLabel /\ InitRace /\ InitFresh

InitLater == InitIngest /\ InitPace /\ InitTap /\ InitLoad /\ InitMore

InitExt == InitPost /\ InitSession /\ InitThreads /\ InitLater

InitRest == InitEngine /\ InitClock /\ InitPreview /\ InitExt /\ live_preview_enabled = TRUE

SpecAudioInit == InitAudio /\ InitRest /\ model_unload_timeout = "Never"

SpecAudio == SpecAudioInit /\ [][NextAudio]_vars

NextEngine ==
    \/ \E o \in EngineKinds \cup {"failed"} : load_model(o) /\ UNCHANGED <<audioVars, clockVars, previewVars, extVars>>
    \/ unload_model /\ UNCHANGED <<audioVars, clockVars, previewVars, extVars>>
    \/ \E t \in {"Never", "Immediately"} :
          set_model_unload_timeout(t) /\ UNCHANGED <<audioVars, engineVars, previewVars, extVars>>
    \/ \E i \in InitiatorIds : InitiateLock(i) /\ UNCHANGED <<audioVars, clockVars, previewVars, extVars>>
    \/ \E i \in InitiatorIds : InitiateBody(i) /\ UNCHANGED <<audioVars, clockVars, previewVars, extVars>>
    \/ \E l \in LoaderIds, o \in EngineKinds \cup {"failed"} :
          LoaderLoad(l, o) /\ UNCHANGED <<audioVars, clockVars, previewVars, extVars>>
    \/ \E l \in LoaderIds : LoaderFinish(l) /\ UNCHANGED <<audioVars, clockVars, previewVars, extVars>>
    \/ \E a \in {"empty", "nonempty"} : TranscribeCall(a) /\ UNCHANGED <<audioVars, clockVars, previewVars, extVars>>
    \/ TranscribeEmpty /\ UNCHANGED <<audioVars, clockVars, previewVars, extVars>>
    \/ TranscribeLockLoading /\ UNCHANGED <<audioVars, clockVars, previewVars, extVars>>
    \/ TranscribeCheckLoading /\ UNCHANGED <<audioVars, clockVars, previewVars, extVars>>
    \/ SpuriousWake /\ UNCHANGED <<audioVars, clockVars, previewVars, extVars>>
    \/ TranscribeWake /\ UNCHANGED <<audioVars, clockVars, previewVars, extVars>>
    \/ TranscribeCheckEngine /\ UNCHANGED <<audioVars, clockVars, previewVars, extVars>>
    \/ TranscribeDispatch /\ UNCHANGED <<audioVars, clockVars, previewVars, extVars>>
    \/ \E ok \in BOOLEAN : TranscribeEngineDone(ok) /\ UNCHANGED <<audioVars, clockVars, previewVars, extVars>>
    \/ TranscribePost /\ UNCHANGED <<audioVars, clockVars, previewVars, extVars>>
    \/ \E a \in {"empty", "nonempty"} : transcribe_partial(a) /\ UNCHANGED <<audioVars, clockVars, previewVars, extVars>>
    \/ \E ok \in BOOLEAN : PartialDone(ok) /\ UNCHANGED <<audioVars, clockVars, previewVars, extVars>>

SpecEngineInit == InitAudio /\ mode = "OnDemand" /\ InitRest /\ model_unload_timeout = "Never"

SpecEngine == SpecEngineInit /\ [][NextEngine]_vars

NextIdle ==
    \/ \E d \in TickSteps : Tick(d) /\ UNCHANGED <<audioVars, previewVars, extVars>>
    \/ \E t \in UnloadTimeouts :
          set_model_unload_timeout(t) /\ UNCHANGED <<audioVars, engineVars, previewVars, extVars>>
    \/ IdleWatcherCheck /\ UNCHANGED <<audioVars, previewVars, extVars>>
    \/ IdleWatcherUnload /\ UNCHANGED <<audioVars, previewVars, extVars>>
    \/ IdleWatcherSleep /\ UNCHANGED <<audioVars, previewVars, extVars>>
    \/ \E o \in EngineKinds \cup {"failed"} : load_model(o) /\ UNCHANGED <<audioVars, clockVars, previewVars, extVars>>
    \/ unload_model /\ UNCHANGED <<audioVars, clockVars, previewVars, extVars>>
    \/ \E a \in {"empty", "nonempty"} : transcribe_partial(a) /\ UNCHANGED <<audioVars, clockVars, previewVars, extVars>>
    \/ \E ok \in BOOLEAN : PartialDone(ok) /\ UNCHANGED <<audioVars, clockVars, previewVars, extVars>>

SpecIdleInit == InitAudio /\ mode = "OnDemand" /\ InitRest

SpecIdle == SpecIdleInit /\ [][NextIdle]_vars

NextPreview ==
    \/ \E v \in BOOLEAN : set_live_preview_enabled(v) /\ UNCHANGED <<audioVars, engineVars, clockVars, extVars>>
    \/ load_model("GroqCloud") /\ UNCHANGED <<audioVars, clockVars, previewVars, extVars>>
    \/ unload_model /\ UNCHANGED <<audioVars, clockVars, previewVars, extVars>>
    \/ \E ok \in BOOLEAN : start(ok) /\ UNCHANGED <<audioVars, engineVars, clockVars, extVars>>
    \/ StopCall /\ UNCHANGED <<audioVars, engineVars, clockVars, extVars>>
    \/ StopCas /\ UNCHANGED <<audioVars, engineVars, clockVars, extVars>>
    \/ JoinFinished /\ UNCHANGED <<audioVars, engineVars, clockVars, extVars>>
    \/ JoinTimeout /\ UNCHANGED <<audioVars, engineVars, clockVars, extVars>>
    \/ StopCleanup /\ UNCHANGED <<audioVars, engineVars, clockVars, extVars>>
    \/ \E n \in BatchSizes : push_audio(n) /\ UNCHANGED <<audioVars, engineVars, clockVars, extVars>>
    \/ \E w \in WorkerIds : WorkerTop(w) /\ UNCHANGED <<audioVars, engineVars, clockVars, extVars>>
    \/ \E w \in WorkerIds, b \in BOOLEAN : WorkerWait(w, b) /\ UNCHANGED <<audioVars, engineVars, clockVars, extVars>>
    \/ \E w \in WorkerIds, b \in BOOLEAN : WorkerRecheck(w, b) /\ UNCHANGED <<audioVars, engineVars, clockVars, extVars>>
    \/ \E w \in WorkerIds, r \in PartialResults :
          WorkerTranscribed(w, r) /\ UNCHANGED <<audioVars, engineVars, clockVars, extVars>>

SpecPreviewInit ==
    /\ InitAudio /\ mode = "OnDemand"
    /\ InitEngine /\ InitClock /\ model_unload_timeout = "Never"
    /\ InitPreview
    /\ InitExt

SpecPreview == SpecPreviewInit /\ [][NextPreview]_vars

\* the fairness the waiting transcribe call relies on: a thread that can
\* take a mutex infinitely often takes it, and a running backend call returns
FairWake == TranscribeWake /\ UNCHANGED <<audioVars, clockVars, previewVars, extVars>>

FairInitiateBody(i) == InitiateBody(i) /\ UNCHANGED <<audioVars, clockVars, previewVars, extVars>>

FairPartialDone == (\E ok \in BOOLEAN : PartialDone(ok)) /\ UNCHANGED <<audioVars, clockVars, previewVars, extVars>>

SpecEngineFair ==
    /\ SpecEngine
    /\ SF_vars(FairWake)
    /\ \A i \in InitiatorIds : SF_vars(FairInitiateBody(i))
    /\ WF_vars(FairPartialDone)

\* the post-processing of one transcribe call after another
NextPost ==
    \/ \E s \in Settings, d \in BOOLEAN :
          PostBegin(s, d) /\ UNCHANGED <<audioVars, engineVars, clockVars, previewVars, sessionVars, threadVars, laterVars>>
    \/ StageCustomWords /\ UNCHANGED <<audioVars, engineVars, clockVars, previewVars, sessionVars, threadVars, laterVars>>
    \/ StageFilter /\ UNCHANGED <<audioVars, engineVars, clockVars, previewVars, sessionVars, threadVars, laterVars>>
    \/ StageCorrections /\ UNCHANGED <<audioVars, engineVars, clockVars, previewVars, sessionVars, threadVars, laterVars>>
    \/ StageSnippets /\ UNCHANGED <<audioVars, engineVars, clockVars, previewVars, sessionVars, threadVars, laterVars>>
    \/ StageFormatting /\ UNCHANGED <<audioVars, engineVars, clockVars, previewVars, sessionVars, threadVars, laterVars>>
    \/ PostReturn /\ UNCHANGED <<audioVars, engineVars, clockVars, previewVars, sessionVars, threadVars, laterVars>>

SpecPostInit == InitAudio /\ mode = "OnDemand" /\ InitRest /\ model_unload_timeout = "Never"

SpecPost == SpecPostInit /\ [][NextPost]_vars

\* every public call of the manager, one after another; a call that
\* blocks for good leaves its thread parked and the others go on calling
NextSession ==
    \/ \E o \in OpenOutcomes :
          start_microphone_stream(o) /\ UNCHANGED <<sessionVars, engineVars, clockVars, previewVars, postVars, threadVars, laterVars>>
    \/ stop_microphone_stream /\ UNCHANGED <<sessionVars, engineVars, clockVars, previewVars, postVars, threadVars, laterVars>>
    \/ \E b \in Bindings, o \in OpenOutcomes, ok \in BOOLEAN :
          ~StartBlocks /\ try_start_recording(b, o, ok)
             /\ UNCHANGED <<sessionVars, engineVars, clockVars, previewVars, postVars, threadVars, laterVars>>
    \/ \E b \in Bindings, o \in OpenOutcomes, ok \in BOOLEAN :
          ~StartBlocks /\ start_meeting_recording(b, o, ok)
             /\ UNCHANGED <<sessionVars, engineVars, clockVars, previewVars, postVars, threadVars, laterVars>>
    \/ \E b \in Bindings, op \in {"try_start_recording", "start_meeting_recording"} :
          StartBlocked(op, b) /\ UNCHANGED <<engineVars, clockVars, previewVars, postVars, threadVars, laterVars>>
    \/ \E b \in Bindings, n \in SampleCounts, ok \in BOOLEAN :
          ~StopBlocks(b) /\ stop_recording(b, n, ok)
             /\ UNCHANGED <<sessionVars, engineVars, clockVars, previewVars, postVars, threadVars, laterVars>>
    \/ \E b \in Bindings :
          StopBlocked(b) /\ UNCHANGED <<engineVars, clockVars, previewVars, postVars, threadVars, laterVars>>
    \/ ~CancelBlocks /\ cancel_recording
          /\ UNCHANGED <<sessionVars, engineVars, clockVars, previewVars, postVars, threadVars, laterVars>>
    \/ CancelBlocked /\ UNCHANGED <<engineVars, clockVars, previewVars, postVars, threadVars, laterVars>>
    \/ \E m \in BOOLEAN :
          apply_mute(m) /\ UNCHANGED <<sessionVars, engineVars, clockVars, previewVars, postVars, threadVars, laterVars>>
    \/ remove_mute /\ UNCHANGED <<sessionVars, engineVars, clockVars, previewVars, postVars, threadVars, laterVars>>
    \/ \E m \in MicrophoneMode, o \in OpenOutcomes :
          update_mode(m, o) /\ UNCHANGED <<engineVars, clockVars, previewVars, postVars, threadVars, laterVars>>
    \/ \E o \in OpenOutcomes :
          update_selected_device(o) /\ UNCHANGED <<engineVars, clockVars, previewVars, postVars, threadVars, laterVars>>
    \/ \E o \in OpenOutcomes :
          refresh_vad_settings(o) /\ UNCHANGED <<engineVars, clockVars, previewVars, postVars, threadVars, laterVars>>

SpecSessionInit == InitAudio /\ InitRest /\ model_unload_timeout = "Never"

SpecSession == SpecSessionInit /\ [][NextSession]_vars

\* the preview session fed with large batches
NextBuffer ==
    \/ \E v \in BOOLEAN : set_live_preview_enabled(v) /\ UNCHANGED <<audioVars, engineVars, clockVars, extVars>>
    \/ load_model("GroqCloud") /\ UNCHANGED <<audioVars, clockVars, previewVars, extVars>>
    \/ unload_model /\ UNCHANGED <<audioVars, clockVars, previewVars, extVars>>
    \/ \E ok \in BOOLEAN : start(ok) /\ UNCHANGED <<audioVars, engineVars, clockVars, extVars>>
    \/ StopCall /\ UNCHANGED <<audioVars, engineVars, clockVars, extVars>>
    \/ StopCas /\ UNCHANGED <<audioVars, engineVars, clockVars, extVars>>
    \/ JoinFinished /\ UNCHANGED <<audioVars, engineVars, clockVars, extVars>>
    \/ JoinTimeout /\ UNCHANGED <<audioVars, engineVars, clockVars, extVars>>
    \/ StopCleanup /\ UNCHANGED <<audioVars, engineVars, clockVars, extVars>>
    \/ \E n \in LargeBatches : PushAudio(n) /\ UNCHANGED <<audioVars, engineVars, clockVars, extVars>>
    \/ \E w \in WorkerIds : WorkerTop(w) /\ UNCHANGED <<audioVars, engineVars, clockVars, extVars>>
    \/ \E w \in WorkerIds, b \in BOOLEAN : WorkerWait(w, b) /\ UNCHANGED <<audioVars, engineVars, clockVars, extVars>>
    \/ \E w \in WorkerIds, b \in BOOLEAN : WorkerRecheck(w, b) /\ UNCHANGED <<audioVars, engineVars, clockVars, extVars>>
    \/ \E w \in WorkerIds, r \in PartialResults :
          WorkerTranscribed(w, r) /\ UNCHANGED <<audioVars, engineVars, clockVars, extVars>>

SpecBuffer == SpecPreviewInit /\ [][NextBuffer]_vars

\* the public calls of the manager issued from MaxThreads threads
NextThreads ==
    \/ \E t \in ThreadIds, op \in ThreadOps, b \in Bindings, m \in BOOLEAN, new \in MicrophoneMode :
          ThreadCall(t, op, b, m, new)
             /\ UNCHANGED <<sessionVars, postVars, engineVars, clockVars, previewVars, laterVars>>
    \/ \E t \in ThreadIds : ThreadReturn(t)
          /\ UNCHANGED <<sessionVars, postVars, engineVars, clockVars, previewVars, laterVars>>
    \/ \E t \in ThreadIds : ApplyMuteLock(t)
          /\ UNCHANGED <<sessionVars, postVars, engineVars, clockVars, previewVars, laterVars>>
    \/ \E t \in ThreadIds : ApplyMuteCheck(t)
          /\ UNCHANGED <<sessionVars, postVars, engineVars, clockVars, previewVars, laterVars>>
    \/ \E t \in ThreadIds : RemoveMute(t)
          /\ UNCHANGED <<sessionVars, postVars, engineVars, clockVars, previewVars, laterVars>>
    \/ \E t \in ThreadIds : StreamOpenLock(t)
          /\ UNCHANGED <<sessionVars, postVars, engineVars, clockVars, previewVars, laterVars>>
    \/ \E t \in ThreadIds : StreamOpenMute(t)
          /\ UNCHANGED <<sessionVars, postVars, engineVars, clockVars, previewVars, laterVars>>
    \/ \E t \in ThreadIds, o \in OpenOutcomes :
          StreamOpenRecorder(t, o) /\ UNCHANGED <<sessionVars, postVars, engineVars, clockVars, previewVars, laterVars>>
    \/ \E t \in ThreadIds : StreamCloseLock(t)
          /\ UNCHANGED <<sessionVars, postVars, engineVars, clockVars, previewVars, laterVars>>
    \/ \E t \in ThreadIds : StreamCloseMute(t)
          /\ UNCHANGED <<sessionVars, postVars, engineVars, clockVars, previewVars, laterVars>>
    \/ \E t \in ThreadIds : StreamCloseRecorder(t)
          /\ UNCHANGED <<sessionVars, postVars, engineVars, clockVars, previewVars, laterVars>>
    \/ \E t \in ThreadIds : TryStartState(t)
          /\ UNCHANGED <<sessionVars, postVars, engineVars, clockVars, previewVars, laterVars>>
    \/ \E t \in ThreadIds : TryStartMode(t)
          /\ UNCHANGED <<sessionVars, postVars, engineVars, clockVars, previewVars, laterVars>>
    \/ \E t \in ThreadIds, ok \in BOOLEAN :
          TryStartRecorder(t, ok) /\ UNCHANGED <<sessionVars, postVars, engineVars, clockVars, previewVars, laterVars>>
    \/ \E t \in ThreadIds : StopState(t)
          /\ UNCHANGED <<sessionVars, postVars, engineVars, clockVars, previewVars, laterVars>>
    \/ \E t \in ThreadIds : StopRecorder(t)
          /\ UNCHANGED <<sessionVars, postVars, engineVars, clockVars, previewVars, laterVars>>
    \/ \E t \in ThreadIds : StopMode(t)
          /\ UNCHANGED <<sessionVars, postVars, engineVars, clockVars, previewVars, laterVars>>
    \/ \E t \in ThreadIds : UpdateModeLock(t)
          /\ UNCHANGED <<sessionVars, postVars, engineVars, clockVars, previewVars, laterVars>>
    \/ \E t \in ThreadIds : UpdateModeMatch(t)
          /\ UNCHANGED <<sessionVars, postVars, engineVars, clockVars, previewVars, laterVars>>
    \/ \E t \in ThreadIds : UpdateModeStarted(t)
          /\ UNCHANGED <<sessionVars, postVars, engineVars, clockVars, previewVars, laterVars>>
    \/ \E t \in ThreadIds : UpdateModeStore(t)
          /\ UNCHANGED <<sessionVars, postVars, engineVars, clockVars, previewVars, laterVars>>

SpecThreadsInit == InitAudio /\ InitRest /\ model_unload_timeout = "Never"

SpecThreads == SpecThreadsInit /\ [][NextThreads]_vars

\* the preview session with the audio callback thread inside push_audio
ingestRest == <<audioVars, engineVars, clockVars, postVars, sessionVars, threadVars, paceVars, tapVars, loadVars, moreVars>>

NextIngest ==
    \/ load_model("GroqCloud") /\ UNCHANGED <<audioVars, clockVars, previewVars, extVars>>
    \/ \E n \in BatchSizes : audio_buffer + n <= MaxPushed /\ PushCall(n) /\ UNCHANGED ingestRest
    \/ PushCheckStopping /\ UNCHANGED ingestRest
    \/ PushTryBuffer /\ UNCHANGED ingestRest
    \/ PushAppend /\ UNCHANGED ingestRest
    \/ PushTryCondvar /\ UNCHANGED ingestRest
    \/ StartBegin /\ UNCHANGED ingestRest
    \/ StartClear /\ UNCHANGED ingestRest
    \/ \E ok \in BOOLEAN : StartSpawn(ok) /\ UNCHANGED ingestRest
    \/ StopCall /\ UNCHANGED <<audioVars, engineVars, clockVars, extVars>>
    \/ IngestStopCas /\ UNCHANGED ingestRest
    \/ JoinFinished /\ UNCHANGED <<audioVars, engineVars, clockVars, extVars>>
    \/ JoinTimeout /\ UNCHANGED <<audioVars, engineVars, clockVars, extVars>>
    \/ IngestStopCleanup /\ UNCHANGED ingestRest
    \/ \E w \in WorkerIds : WorkerTop(w) /\ UNCHANGED <<audioVars, engineVars, clockVars, extVars>>
    \/ \E w \in WorkerIds, b \in BOOLEAN : IngestWaitLock(w, b) /\ UNCHANGED ingestRest
    \/ \E w \in WorkerIds : IngestWaitPark(w) /\ UNCHANGED ingestRest
    \/ \E w \in WorkerIds : IngestWaitWake(w) /\ UNCHANGED ingestRest
    \/ \E w \in WorkerIds, b \in BOOLEAN : IngestChecks(w, b) /\ UNCHANGED ingestRest
    \/ \E w \in WorkerIds : IngestLockBuffer(w) /\ UNCHANGED ingestRest
    \/ \E w \in WorkerIds : IngestCopy(w) /\ UNCHANGED ingestRest
    \/ \E w \in WorkerIds, r \in IngestResults :
          WorkerTranscribed(w, r) /\ UNCHANGED <<audioVars, engineVars, clockVars, extVars>>

SpecIngestInit == SpecPreviewInit /\ live_preview_enabled = TRUE

SpecIngest == SpecIngestInit /\ [][NextIngest]_vars

\* one preview worker's pacing, with transcribe holding the engine mutex
paceRest == <<audioVars, clockVars, postVars, sessionVars, threadVars, ingestVars, tapVars, loadVars, moreVars>>

NextPace ==
    \/ \E k \in PaceKinds : PaceLoad(k) /\ UNCHANGED <<paceRest, previewVars>>
    \/ TranscribeCall("nonempty") /\ UNCHANGED <<paceRest, previewVars, paceVars>>
    \/ TranscribeLockLoading /\ UNCHANGED <<paceRest, previewVars, paceVars>>
    \/ TranscribeCheckLoading /\ UNCHANGED <<paceRest, previewVars, paceVars>>
    \/ TranscribeCheckEngine /\ UNCHANGED <<paceRest, previewVars, paceVars>>
    \/ TranscribeDispatch /\ UNCHANGED <<paceRest, previewVars, paceVars>>
    \/ \E ok \in BOOLEAN : TranscribeEngineDone(ok) /\ UNCHANGED <<paceRest, previewVars, paceVars>>
    \/ TranscribePost /\ UNCHANGED <<paceRest, previewVars, paceVars>>
    \/ \E ok \in BOOLEAN : PartialDone(ok) /\ UNCHANGED <<paceRest, previewVars, paceVars>>
    \/ PaceStart /\ UNCHANGED <<paceRest, engineVars>>
    \/ PaceBegin /\ UNCHANGED <<paceRest, engineVars, previewVars>>
    \/ \E cfg \in ConfiguredIntervals : PaceTop(cfg) /\ UNCHANGED <<paceRest, engineVars, previewVars>>
    \/ \E a \in BOOLEAN : PaceCheck(a) /\ UNCHANGED <<paceRest, engineVars, previewVars>>
    \/ PaceCall /\ UNCHANGED <<paceRest, previewVars>>
    \/ PaceResult /\ UNCHANGED <<paceRest, engineVars>>
    \/ PaceTick /\ UNCHANGED <<paceRest, engineVars, previewVars>>

SpecPaceInit == SpecPreviewInit /\ live_preview_enabled = TRUE

SpecPace == SpecPaceInit /\ [][NextPace]_vars

\* recordings with the preview session running alongside
tapRest == <<engineVars, clockVars, postVars, sessionVars, threadVars, ingestVars, paceVars, loadVars, moreVars>>

NextTap ==
    \/ set_live_preview_manager /\ UNCHANGED <<tapRest, audioVars, previewVars>>
    \/ \E o \in OpenOutcomes, ok \in BOOLEAN :
          TapStart(1, o, ok) /\ UNCHANGED <<tapRest, previewVars>>
    \/ \E d \in BOOLEAN : Deliver(d) /\ UNCHANGED <<tapRest, audioVars>>
    \/ \E ok \in BOOLEAN : TapStop(1, ok) /\ UNCHANGED <<tapRest, previewVars>>
    \/ TapCancel /\ UNCHANGED <<tapRest, previewVars>>
    \/ load_model("GroqCloud") /\ UNCHANGED <<audioVars, clockVars, previewVars, extVars>>
    \/ \E ok \in BOOLEAN : start(ok) /\ UNCHANGED <<audioVars, engineVars, clockVars, extVars>>
    \/ StopCall /\ UNCHANGED <<audioVars, engineVars, clockVars, extVars>>
    \/ StopCas /\ UNCHANGED <<audioVars, engineVars, clockVars, extVars>>
    \/ JoinFinished /\ UNCHANGED <<audioVars, engineVars, clockVars, extVars>>
    \/ StopCleanup /\ UNCHANGED <<audioVars, engineVars, clockVars, extVars>>
    \/ \E w \in WorkerIds : WorkerTop(w) /\ UNCHANGED <<audioVars, engineVars, clockVars, extVars>>
    \/ \E w \in WorkerIds, b \in BOOLEAN : WorkerWait(w, b) /\ UNCHANGED <<audioVars, engineVars, clockVars, extVars>>
    \/ \E w \in WorkerIds, b \in BOOLEAN : WorkerRecheck(w, b) /\ UNCHANGED <<audioVars, engineVars, clockVars, extVars>>
    \/ \E w \in WorkerIds, r \in TapResults :
          WorkerTranscribed(w, r) /\ UNCHANGED <<audioVars, engineVars, clockVars, extVars>>

SpecTapInit ==
    /\ InitAudio
    /\ InitEngine /\ InitClock /\ model_unload_timeout = "Never"
    /\ InitPreview /\ live_preview_enabled = TRUE
    /\ InitExt

SpecTap == SpecTapInit /\ [][NextTap]_vars

\* load_model calls, with unload_model and the preview's partial calls
loadRest == <<audioVars, clockVars, previewVars, postVars, sessionVars, threadVars,
              ingestVars, paceVars, tapVars, moreVars>>

NextLoad ==
    \/ \E k \in EngineKinds : LoadCall(k) /\ UNCHANGED loadRest
    \/ \E f \in BOOLEAN, d \in BOOLEAN : LoadInfo(f, d) /\ UNCHANGED loadRest
    \/ \E ok \in BOOLEAN : LoadPath(ok) /\ UNCHANGED loadRest
    \/ \E ok \in BOOLEAN : LoadBackend(ok) /\ UNCHANGED loadRest
    \/ LoadStore /\ UNCHANGED loadRest
    \/ unload_model /\ UNCHANGED <<loadRest, loadVars>>
    \/ transcribe_partial("nonempty") /\ UNCHANGED <<loadRest, loadVars>>
    \/ \E ok \in BOOLEAN : PartialDone(ok) /\ UNCHANGED <<loadRest, loadVars>>

SpecLoadInit == SpecPreviewInit /\ live_preview_enabled = TRUE

SpecLoad == SpecLoadInit /\ [][NextLoad]_vars

diarRest == <<audioVars, engineVars, clockVars, previewVars, sessionVars, threadVars,
              ingestVars, paceVars, tapVars, loadVars, groqVars, txtVars, tallyVars,
    ingestedVars,
    assignVars,
    labelVars,
    raceVars,
    freshVars>>

NextDiar ==
    \/ \E s \in Settings, enabled \in BOOLEAN, mgr \in DiarManagers,
          len \in DiarLens, run \in DiarRuns :
          TranscribeDiarize(s, enabled, mgr, len, run) /\ UNCHANGED diarRest
    \/ StageCustomWords /\ UNCHANGED <<diarRest, diarVars>>
    \/ StageFilter /\ UNCHANGED <<diarRest, diarVars>>
    \/ StageCorrections /\ UNCHANGED <<diarRest, diarVars>>
    \/ StageSnippets /\ UNCHANGED <<diarRest, diarVars>>
    \/ StageFormatting /\ UNCHANGED <<diarRest, diarVars>>
    \/ PostReturn /\ UNCHANGED <<diarRest, diarVars>>

SpecDiar == SpecPostInit /\ [][NextDiar]_vars

groqRest == <<audioVars, engineVars, clockVars, previewVars, postVars, sessionVars,
              threadVars, ingestVars, paceVars, tapVars, loadVars, diarVars, txtVars, tallyVars,
    ingestedVars,
    assignVars,
    labelVars,
    raceVars,
    freshVars>>

NextGroq ==
    \/ \E fn \in GroqFns, api_key_empty \in BOOLEAN, known_model \in BOOLEAN,
          built \in BOOLEAN :
          GroqCall(fn, api_key_empty, known_model, built) /\ UNCHANGED groqRest
    \/ GroqTop /\ UNCHANGED groqRest
    \/ \E r \in Replies : GroqSend(r) /\ UNCHANGED groqRest

SpecGroq == SpecPostInit /\ [][NextGroq]_vars

txtRest == <<audioVars, engineVars, clockVars, previewVars, postVars, sessionVars,
             threadVars, ingestVars, paceVars, tapVars, loadVars, diarVars, groqVars, tallyVars,
    ingestedVars,
    assignVars,
    labelVars,
    raceVars,
    freshVars>>

NextText ==
    \/ \E raw \in RawTexts : TextBegin(raw) /\ UNCHANGED txtRest
    \/ TextCustomWords /\ UNCHANGED txtRest
    \/ TextFilter /\ UNCHANGED txtRest
    \/ TextCorrections /\ UNCHANGED txtRest
    \/ TextSnippets /\ UNCHANGED txtRest
    \/ TextFormatting /\ UNCHANGED txtRest
    \/ TextReturn /\ UNCHANGED txtRest

SpecText == SpecPostInit /\ [][NextText]_vars

tallyRest == <<audioVars, engineVars, clockVars, postVars, sessionVars, threadVars,
               ingestVars, paceVars, tapVars, loadVars, diarVars, groqVars, txtVars,
    ingestedVars,
    assignVars,
    labelVars,
    raceVars,
    freshVars>>

NextTally ==
    \/ load_model("GroqCloud") /\ UNCHANGED <<audioVars, clockVars, previewVars, extVars>>
    \/ \E ok \in BOOLEAN : TallyStart(ok) /\ UNCHANGED tallyRest
    \/ StopCall /\ UNCHANGED <<audioVars, engineVars, clockVars, extVars>>
    \/ StopCas /\ UNCHANGED <<audioVars, engineVars, clockVars, extVars>>
    \/ JoinFinished /\ UNCHANGED <<audioVars, engineVars, clockVars, extVars>>
    \/ JoinTimeout /\ UNCHANGED <<audioVars, engineVars, clockVars, extVars>>
    \/ StopCleanup /\ UNCHANGED <<audioVars, engineVars, clockVars, extVars>>
    \/ \E n \in BatchSizes : push_audio(n) /\ UNCHANGED <<audioVars, engineVars, clockVars, extVars>>
    \/ \E w \in WorkerIds : WorkerTop(w) /\ UNCHANGED <<audioVars, engineVars, clockVars, extVars>>
    \/ \E w \in WorkerIds, b \in BOOLEAN : WorkerWait(w, b) /\ UNCHANGED <<audioVars, engineVars, clockVars, extVars>>
    \/ \E w \in WorkerIds, b \in BOOLEAN : WorkerRecheck(w, b) /\ UNCHANGED <<audioVars, engineVars, clockVars, extVars>>
    \/ \E w \in WorkerIds, r \in PartialResults : TallyTranscribed(w, r) /\ UNCHANGED tallyRest

SpecTally == SpecIngestInit /\ [][NextTally]_vars

ingestedRest == <<audioVars, engineVars, clockVars, postVars, sessionVars, threadVars,
    ingestVars, paceVars, tapVars, loadVars, diarVars, groqVars, txtVars, tallyVars,
    assignVars,
    labelVars,
    raceVars,
    freshVars>>

NextEvict ==
    \/ load_model("GroqCloud") /\ UNCHANGED <<audioVars, clockVars, previewVars, extVars>>
    \/ \E ok \in BOOLEAN : EvictStart(ok) /\ UNCHANGED ingestedRest
    \/ StopCall /\ UNCHANGED <<audioVars, engineVars, clockVars, extVars>>
    \/ StopCas /\ UNCHANGED <<audioVars, engineVars, clockVars, extVars>>
    \/ JoinFinished /\ UNCHANGED <<audioVars, engineVars, clockVars, extVars>>
    \/ StopCleanup /\ UNCHANGED <<audioVars, engineVars, clockVars, extVars>>
    \/ \E n \in WindowBatches : EvictPush(n) /\ UNCHANGED ingestedRest
    \/ \E w \in WorkerIds : WorkerTop(w) /\ UNCHANGED <<audioVars, engineVars, clockVars, extVars>>
    \/ \E w \in WorkerIds, b \in BOOLEAN : WorkerWait(w, b) /\ UNCHANGED <<audioVars, engineVars, clockVars, extVars>>
    \/ \E w \in WorkerIds, b \in BOOLEAN : EvictRecheck(w, b) /\ UNCHANGED ingestedRest
    \/ \E w \in WorkerIds, r \in PartialResults : EvictTranscribed(w, r) /\ UNCHANGED ingestedRest

SpecEvict == SpecIngestInit /\ [][NextEvict]_vars

assignRest == <<audioVars, engineVars, clockVars, previewVars, postVars, sessionVars, threadVars,
    ingestVars, paceVars, tapVars, loadVars, diarVars, groqVars, txtVars, tallyVars, ingestedVars,
    labelVars,
    raceVars,
    freshVars>>

NextAssign ==
    \/ /\ asg.pc # "done"
       /\ \E ts \in ShortLists(TranscriptSegments), ds \in ShortLists(DiarizedSegments) :
             AssignCall(ts, ds) /\ UNCHANGED assignRest
    \/ AssignReturn /\ UNCHANGED assignRest

SpecAssign == SpecPostInit /\ [][NextAssign]_vars

labelRest == <<audioVars, engineVars, clockVars, previewVars, postVars, sessionVars, threadVars,
    ingestVars, paceVars, tapVars, loadVars, diarVars, groqVars, txtVars, tallyVars, ingestedVars,
    assignVars,
    raceVars,
    freshVars>>

NextLabel ==
    \/ /\ lab.pc # "done"
       /\ \E ts \in ShortLists(TranscriptSegments), ds \in ShortLists(DiarizedSegments),
             has_segments \in BOOLEAN :
             LabelCall(ts, ds, has_segments) /\ UNCHANGED labelRest
    \/ LabelReturn /\ UNCHANGED labelRest

SpecLabel == SpecPostInit /\ [][NextLabel]_vars

raceRest == <<audioVars, clockVars, previewVars, postVars, sessionVars, threadVars,
    ingestVars, paceVars, tapVars, loadVars, diarVars, groqVars, txtVars, tallyVars, ingestedVars,
    assignVars, labelVars,
    freshVars>>

NextRace ==
    \/ \E t \in ThreadIds, k \in EngineKinds, ok \in BOOLEAN :
          RaceLoad(t, k, ok) /\ UNCHANGED raceRest
    \/ \E t \in ThreadIds : RaceUnload(t) /\ UNCHANGED raceRest
    \/ \E t \in ThreadIds : RaceStoreEngine(t) /\ UNCHANGED raceRest
    \/ \E t \in ThreadIds : RaceStoreModel(t) /\ UNCHANGED raceRest

SpecRace == SpecPostInit /\ [][NextRace]_vars

freshRest == <<audioVars, previewVars, postVars, sessionVars, threadVars,
    ingestVars, paceVars, tapVars, loadVars, diarVars, groqVars, txtVars, tallyVars, ingestedVars,
    assignVars, labelVars, raceVars>>

NextFresh ==
    \/ \E d \in TickSteps : Tick(d) /\ UNCHANGED <<freshRest, freshVars>>
    \/ \E t \in UnloadTimeouts :
          set_model_unload_timeout(t) /\ UNCHANGED <<engineVars, freshRest, freshVars>>
    \/ IdleWatcherCheck /\ UNCHANGED <<freshRest, freshVars>>
    \/ IdleWatcherUnload /\ UNCHANGED <<freshRest, freshVars>>
    \/ IdleWatcherSleep /\ UNCHANGED <<freshRest, freshVars>>
    \/ \E o \in EngineKinds \cup {"failed"} : FreshLoad(o) /\ UNCHANGED <<clockVars, freshRest>>
    \/ \E a \in {"empty", "nonempty"} :
          transcribe_partial(a) /\ UNCHANGED <<clockVars, freshRest, freshVars>>
    \/ \E ok \in BOOLEAN : PartialDone(ok) /\ UNCHANGED <<clockVars, freshRest, freshVars>>

SpecFresh == SpecIdleInit /\ [][NextFresh]_vars

(* ================================================================== *)
(* Properties                                                          *)
(* ================================================================== *)

\* C1 (SpecAudio): at most one recording is active at a time. A
\* try_start_recording or start_meeting_recording issued while the state is
\* Recording{b} returns false and leaves the state Recording{b};
\* stop_recording(b2) with b2 different from the active binding, or issued
\* from Idle, returns None and leaves the state unchanged.
C1_SingleRecording ==
    [][/\ (call'.op \in {"try_start_recording", "start_meeting_recording"} /\ state # Idle)
            => (call'.ret = "false" /\ state' = state)
       /\ (call'.op = "stop_recording" /\ state # call'.arg)
            => (call'.ret = "None" /\ call'.len = 0 /\ state' = state)
       /\ (call'.op = "cancel_recording") => state' = Idle
       /\ (state # Idle /\ state' # Idle) => state' = state]_vars

\* a start was refused because a recording was active
C1_Witness ==
    /\ state # Idle
    /\ call.op \in {"try_start_recording", "start_meeting_recording"}
    /\ call.ret = "false"
    /\ call.arg # state

\* C2 (SpecEngine): transcribe_partial with non-empty audio, called while
\* another thread holds the engine lock, returns at once with the
\* "Engine busy" error: it does not enter a backend, does not take or wait
\* for the lock, and reports no other error.
C2_PartialBusy ==
    [][(prev'.n # prev.n /\ prev'.audio = "nonempty" /\ engine_lock # "free")
          => /\ prev'.pc = "idle"
             /\ prev'.ret = "EngineBusy"
             /\ engine_lock' = engine_lock
             /\ fin' = fin]_vars

\* a preview call found the engine held by a running transcribe
C2_Witness ==
    /\ prev.ret = "EngineBusy"
    /\ prev.audio = "nonempty"
    /\ fin.pc = "in_engine"
    /\ engine_lock = "final"

\* C3 (SpecEngine), as claimed: transcribe never has to wait for the engine
\* lock because a transcribe_partial call is holding it, whatever backend
\* is loaded.
C3_FinalNeverWaitsForPreview ==
    ~(fin.pc \in {"check_engine", "dispatch"} /\ engine_lock = "preview")

\* C4 (SpecEngine), as claimed: with the cloud backend neither transcribe
\* nor transcribe_partial holds the engine lock while the network request
\* is awaited.
C4_NoLockAcrossCloudCall ==
    /\ ~(fin.pc = "in_engine" /\ fin.kind = "GroqCloud" /\ engine_lock = "final")
    /\ ~(prev.pc = "network" /\ engine_lock = "preview")

\* C5 (SpecPreview), as claimed: at most one live-preview worker loop is
\* executing at any time, for every sequence of start() and stop() calls.
C5_AtMostOneWorker == Cardinality(Running) <= 1

\* C6 (SpecPreview), as claimed: once stop() has returned, no
\* live-preview-update or live-preview-error event is published until the
\* next start().
C6_NoEventAfterStop == [][(after_stop /\ after_stop') => emit' = emit]_vars

\* C7 (SpecPreview), as claimed: a worker whose session was ended by stop()
\* leaves its loop at its next shutdown check, whatever start() and stop()
\* calls follow.
C7_EndedWorkerExits ==
    [][\A w \in WorkerIds :
          (/\ workers[w].ended
           /\ workers[w].pc \in {"top", "recheck"}
           /\ workers'[w].pc # workers[w].pc)
          => workers'[w].pc = "done"]_vars

\* C8 (SpecEngineFair): a transcribe call with non-empty audio that finds a
\* background load in progress starts no load and enters no backend: it
\* parks on the condition variable, is never left parked once is_loading is
\* false and then leaves the wait, passes the loading check only when
\* is_loading is false, and then returns an error if no engine is loaded
\* and otherwise goes on to dispatch to the loaded engine.
C8_WaitsForLoad ==
    /\ [](("final" \in waiters) => (is_loading /\ fin.pc = "waiting"))
    /\ [](fin.pc \in {"waiting", "check_loading", "lock_loading"}
             => (fin.kind = "None" /\ engine_lock # "final"))
    /\ [][/\ (fin.pc = "check_loading" /\ fin'.pc = "waiting") => is_loading
          /\ (fin.pc = "check_loading" /\ fin'.pc = "check_engine") => ~is_loading
          /\ (fin' # fin) => (loaders' = loaders /\ is_loading' = is_loading)
          /\ (fin.pc = "check_engine" /\ fin' # fin)
                => IF engine = "None"
                   THEN fin'.pc = "idle" /\ fin'.ret = "ErrNotLoaded"
                   ELSE fin'.pc = "dispatch"
          /\ (fin.pc = "dispatch" /\ fin'.pc = "in_engine") => fin'.kind = engine]_vars
    /\ ((fin.pc = "waiting" /\ ~is_loading) ~> (fin.pc # "waiting"))

\* a transcribe call is parked while a background load runs
C8_Witness ==
    /\ fin.pc = "waiting"
    /\ "final" \in waiters
    /\ is_loading
    /\ \E l \in LoaderIds : loaders[l] = "load"

\* C9 (SpecEngine): at most one background load runs at a time, and
\* is_loading is true exactly while one runs; an initiate_model_load call
\* made while a load is in progress or a model is loaded starts nothing;
\* when the load thread finishes, is_loading is false and every waiter has
\* been notified.
C9_SingleLoad ==
    /\ [](Cardinality({l \in LoaderIds : loaders[l] # "none"}) <= 1)
    /\ [](is_loading <=> (\E l \in LoaderIds : loaders[l] # "none"))
    /\ [][/\ (\E i \in InitiatorIds : initiators[i] = "locked" /\ initiators'[i] = "idle")
                => IF is_loading \/ engine # "None"
                   THEN loaders' = loaders /\ is_loading' = is_loading
                   ELSE is_loading' /\ Cardinality({l \in LoaderIds : loaders'[l] = "load"}) = 1
          /\ (\E l \in LoaderIds : loaders[l] = "finish" /\ loaders'[l] = "none")
                => (~is_loading' /\ waiters' = {})]_vars

\* a second initiate_model_load call is inside its critical section while
\* the load started by an earlier call is still running
C9_Witness ==
    /\ is_loading
    /\ \E l \in LoaderIds : loaders[l] # "none"
    /\ \E i \in InitiatorIds : initiators[i] = "locked"

\* C10 (SpecIdle): on each idle-watcher check the watcher goes on to unload
\* exactly when the timeout is the finite one of IdleSeconds seconds, a
\* model is loaded and now - last_activity > IdleSeconds * 1000 ms, and the
\* unload leaves no model loaded; under Never and under Immediately the
\* check never unloads, and a check that does not unload leaves the engine
\* as it is.
C10_IdleEviction ==
    [][/\ (watcher = "sleep" /\ watcher' # "sleep")
            => /\ (watcher' = "unload") <=>
                     (/\ model_unload_timeout = "Sec"
                      /\ engine # "None"
                      /\ now - last_activity > IdleSeconds * 1000)
               /\ engine' = engine
       /\ (watcher = "unload" /\ watcher' # "unload") => engine' = "None"]_vars

\* the watcher found the model idle for longer than the timeout
C10_Witness ==
    /\ watcher = "unload"
    /\ model_unload_timeout = "Sec"
    /\ engine # "None"
    /\ now - last_activity > IdleSeconds * 1000

\* C11 (SpecEngine), as claimed: with the unload policy Immediately, every
\* step on which a transcribe call returns (with a transcript, with the
\* empty result, or with an error) leaves no model loaded.
C11_ImmediateUnloadOnReturn ==
    [][(/\ fin.pc # "idle"
        /\ fin'.pc = "idle"
        /\ model_unload_timeout = "Immediately")
           => engine' = "None"]_vars

C13_ShortRecordingPadded ==
    [][(call'.op = "stop_recording" /\ call'.ret = "Some")
          => LET n == call'.kept
                 len == call'.len
             IN /\ (0 < n /\ n < 16000) => len = 20000
                /\ n >= 16000 => len = n
                /\ n = 0 => len = 0
                /\ len \notin 1..15999]_vars

\* a recording of 15999 samples came back as 20000
C13_Witness ==
    /\ call.op = "stop_recording"
    /\ call.ret = "Some"
    /\ call.kept = 15999
    /\ call.len = 20000

\* C14 (SpecSession): in OnDemand mode a try_start_recording or
\* start_meeting_recording that returns true leaves the stream open; a
\* stop_recording that returns Some leaves no recording and the stream
\* closed and hands back the recorder's samples unpadded when there are
\* 16000 or more; a cancel_recording of an active recording that returns
\* leaves no recording and the stream closed. In AlwaysOn mode none of
\* these calls changes whether the stream is open.
C14_OnDemandStreamFollowsRecording ==
    [][LET starts == {"try_start_recording", "start_meeting_recording"}
           returned == call'.ret # "blocked"
       IN /\ (mode = "OnDemand" /\ call'.op \in starts /\ call'.ret = "true")
               => (is_open' /\ state' = call'.arg)
          /\ (mode = "OnDemand" /\ call'.op = "stop_recording" /\ call'.ret = "Some")
               => /\ ~is_open'
                  /\ state' = Idle
                  /\ call'.kept >= 16000 => call'.len = call'.kept
          /\ (mode = "OnDemand" /\ call'.op = "cancel_recording" /\ returned
                 /\ state # Idle)
               => (~is_open' /\ state' = Idle)
          /\ (mode = "AlwaysOn" /\ returned
                 /\ call'.op \in starts \cup {"stop_recording", "cancel_recording"})
               => is_open' = is_open]_vars

\* an OnDemand recording of 24000 samples was stopped: the samples came
\* back as they were and the stream is closed
C14_Witness ==
    /\ mode = "OnDemand"
    /\ call.op = "stop_recording"
    /\ call.ret = "Some"
    /\ call.kept = 24000
    /\ call.len = 24000
    /\ ~is_open
    /\ state = Idle

\* C15 (SpecSession): start_microphone_stream called while the stream is
\* open returns Ok and changes nothing; stop_microphone_stream called
\* while the stream is not open changes nothing.
C15_StreamCallsIdempotent ==
    [][/\ (call'.op = "start_microphone_stream" /\ is_open)
            => /\ call'.ret = "Ok"
               /\ UNCHANGED <<state, mode, recorder, is_open, is_recording,
                              did_mute, sys_muted, mode_lock, state_lock>>
       /\ (call'.op = "stop_microphone_stream" /\ ~is_open)
            => UNCHANGED <<state, mode, recorder, is_open, is_recording,
                           did_mute, sys_muted, mode_lock, state_lock>>]_vars

\* start_microphone_stream has just returned on a stream that is open and
\* muted: opening a closed stream would have cleared did_mute
C15_Witness ==
    /\ call.op = "start_microphone_stream"
    /\ call.ret = "Ok"
    /\ is_open
    /\ did_mute
    /\ state # Idle

\* C16 (SpecSession), as claimed, for an update_mode issued while no
\* earlier call is parked on a mutex: update_mode(OnDemand) in AlwaysOn
\* mode closes the stream if and only if the state is Idle, and with a
\* recording active it leaves the state, the recorder, the recording flag
\* and the open stream untouched and sets the mode to OnDemand;
\* update_mode(AlwaysOn) in OnDemand mode that returns Ok leaves the stream
\* open.
C16_ModeSwitch ==
    [][(call'.op = "update_mode" /\ mode_lock = "free" /\ state_lock = "free")
          => /\ (mode = "AlwaysOn" /\ call'.to = "OnDemand")
                  => /\ state = Idle => ~is_open'
                     /\ state # Idle
                          => /\ UNCHANGED <<state, recorder, is_open, is_recording>>
                             /\ mode' = "OnDemand"
             /\ (mode = "OnDemand" /\ call'.to = "AlwaysOn" /\ call'.ret = "Ok")
                  => (is_open' /\ mode' = "AlwaysOn")]_vars

\* C17 (SpecSession), as claimed: update_selected_device or
\* refresh_vad_settings called while a recording is running (state
\* Recording, recorder present and recording, stream open) leaves the
\* state, the recorder, the recording flag and the open stream as they
\* are, so that the capture goes on and the matching stop_recording still
\* finds the recorder.
C17_RefreshKeepsRecording ==
    [][(/\ call'.op \in {"update_selected_device", "refresh_vad_settings"}
        /\ state # Idle
        /\ recorder
        /\ is_recording
        /\ is_open)
          => UNCHANGED <<state, recorder, is_recording, is_open>>]_vars

\* C19 (SpecSession), as claimed: when stop_recording returns Some, when
\* cancel_recording returns from an active recording, and when
\* stop_microphone_stream returns, a mute that was applied is gone
\* (did_mute false, system output unmuted) whatever the mode, and when
\* none was applied the mute state is as before.
C19_MuteRemovedOnStop ==
    [][(\/ (call'.op = "stop_recording" /\ call'.ret = "Some")
        \/ (call'.op = "cancel_recording" /\ call'.ret # "blocked" /\ state # Idle)
        \/ call'.op = "stop_microphone_stream")
          => /\ did_mute => (~did_mute' /\ ~sys_muted')
             /\ ~did_mute => UNCHANGED <<did_mute, sys_muted>>]_vars

\* C19 amended (SpecSession): the mute is removed by the calls that close
\* the stream and by remove_mute. When stop_microphone_stream returns, and
\* when stop_recording (returning Some) or cancel_recording (from an
\* active recording) returns in OnDemand mode, an applied mute is gone:
\* did_mute is false and the system output unmuted. In AlwaysOn mode
\* stop_recording and cancel_recording leave did_mute and the system
\* output as they were, and it is remove_mute that clears them. A call
\* that finds no mute applied leaves the mute state untouched.
C19_MuteRemovedOnClose ==
    [][LET stops == \/ (call'.op = "stop_recording" /\ call'.ret = "Some")
                    \/ (call'.op = "cancel_recording" /\ call'.ret # "blocked"
                          /\ state # Idle)
           closes == \/ call'.op = "stop_microphone_stream"
                     \/ (stops /\ mode = "OnDemand")
                     \/ call'.op = "remove_mute"
       IN /\ closes => /\ did_mute => (~did_mute' /\ ~sys_muted')
                       /\ ~did_mute => UNCHANGED <<did_mute, sys_muted>>
          /\ (stops /\ mode = "AlwaysOn") => UNCHANGED <<did_mute, sys_muted>>]_vars

\* an AlwaysOn recording was stopped and the mute applied during it is
\* still in place
C19_Witness ==
    /\ mode = "AlwaysOn"
    /\ call.op = "stop_recording"
    /\ call.ret = "Some"
    /\ did_mute
    /\ sys_muted

\* C20 (SpecBuffer), as claimed: whatever batches push_audio is given, the
\* preview buffer never holds more than MAX_BUFFER_SAMPLES samples.
C20_BufferWithinCap == audio_buffer <= MAX_BUFFER_SAMPLES

\* C18 (SpecThreads), as claimed: with the public calls issued from
\* different threads, no threads ever wait for mutexes held by one
\* another, so every call can still return.
C18_NoDeadlock == ~Deadlocked

\* C21: push_audio never waits for a lock. A call past its first check can
\* always take its next step, whoever holds the two mutexes. With the
\* buffer mutex held by another thread the call returns and the buffer is
\* unchanged; with the session inactive or stopping it returns and the
\* buffer is unchanged; with the mutex free the batch is appended; the
\* call returns from the wake-up step whether or not the condvar mutex is
\* free, and leaves the flag alone when it is not.
C21_PushNeverWaits ==
    /\ [](pusher.pc # "idle" => ENABLED PusherStep)
    /\ [][pusher' # pusher =>
            /\ (pusher.pc = "idle" /\ ~is_active)
                  => pusher'.pc = "idle" /\ audio_buffer' = audio_buffer
            /\ (pusher.pc = "check_stopping" /\ is_stopping)
                  => pusher'.pc = "idle" /\ audio_buffer' = audio_buffer
            /\ (pusher.pc = "try_buffer" /\ buffer_lock # "free")
                  => /\ pusher'.pc = "idle" /\ pusher'.out = "dropped"
                     /\ audio_buffer' = audio_buffer /\ has_audio' = has_audio
            /\ (pusher.pc = "try_buffer" /\ buffer_lock = "free")
                  => pusher'.pc = "append" /\ buffer_lock' = "audio"
            /\ pusher.pc = "append"
                  => audio_buffer' = Appended(audio_buffer, pusher.n)
            /\ pusher.pc = "try_condvar"
                  => /\ pusher'.pc = "idle" /\ buffer_lock' = "free"
                     /\ condvar_lock # "free" => has_audio' = has_audio
                     /\ condvar_lock = "free" => has_audio']_vars

\* a batch was dropped because a worker holds the buffer mutex
C21_Witness ==
    /\ pusher.pc = "idle" /\ pusher.out = "dropped"
    /\ buffer_lock = "worker"

\* C22: once stop() of an active preview session has returned, the preview
\* audio buffer is empty and stays empty until start() is called again,
\* whatever push_audio calls run alongside.
C22_BufferEmptyAfterStop ==
    stop_done = "active" => audio_buffer = 0

\* C23: in a preview session that runs against the cloud backend each
\* iteration's interval is max(configured, 3000) + backoff and successive
\* calls of transcribe_partial are at least 3000 ms apart; against a local
\* backend the interval is configured + backoff. Backoff is 0 without
\* failures and min(500 * 2^min(f,4), 5000) for f >= 1.
C23_PreviewPacing ==
    LET f == consecutive_failures
        backoff == IF f = 0 THEN 0 ELSE MinOf(500 * 2 ^ MinOf(f, 4), 5000)
        sameEngine == pace.loaded = engine /\ ~pace.swapped
    IN /\ (pace.pc \in {"check", "call", "in_call"} /\ sameEngine)
             => pace.eff = IF engine = "GroqCloud"
                           THEN MaxOf(pace.cfg, 3000) + backoff
                           ELSE pace.cfg + backoff
       /\ (pace.pc \in {"call", "in_call"} /\ sameEngine /\ engine = "GroqCloud"
             /\ pace.gap >= 0)
             => pace.gap >= 3000

C25_RecordingFeedsPreview ==
    (tap.since /\ state # Idle) => tap.fwd = tap.heard

\* C26: a load_model call that has returned has published loading_started
\* and then exactly one more event: loading_completed when it returned Ok,
\* loading_failed when it returned Err, whatever made it fail.
C26_LoadEvents ==
    (loadcall.pc = "idle" /\ loadcall.ret # "none")
       => loadcall.events =
             <<"loading_started",
               IF loadcall.ret = "Ok" THEN "loading_completed" ELSE "loading_failed">>

\* C27 (SpecDiar): with diarization enabled, whenever the manager is absent
\* or not ready, or diarize returned an error or an empty list (as it does
\* for every recording shorter than 16000 samples), transcribe goes on to
\* its post-processing and the text entering it is the raw backend text,
\* without speaker labels.
C27_DiarizationFallsBack ==
    (post.pc # "idle" /\ diar.enabled)
       => /\ (diar.mgr = "ready" /\ diar.len < 16000) => diar.out = "empty"
          /\ (diar.mgr # "ready" \/ diar.out \in {"err", "empty"})
                => post.text[1] = "raw"

C27_Witness ==
    /\ post.pc = "done"
    /\ diar.enabled /\ diar.mgr = "ready"
    /\ diar.len = 15999 /\ diar.out = "empty"
    /\ post.text[1] = "raw"

\* C28 (SpecGroq): a cloud call sends at most 4 requests; before the i-th
\* retry it sleeps 500 * 2^(i-1) ms; every attempt but the last failed with
\* a retryable kind; the call goes on to another attempt exactly when the
\* attempt failed with a retryable kind and fewer than 3 retries were made,
\* so a non-retryable error ends the call at the attempt that produced it;
\* and a missing API key is returned with no request sent.
C28_BoundedRetries ==
    LET n == Len(groq.log)
        Retryable == {"Timeout", "NetworkError", "ServerError", "RateLimited"}
        returned == groq.pc = "idle" /\ groq.ret # "none"
    IN  /\ groq.requests = n /\ n <= 4
        /\ Len(groq.slept) <= 3
        /\ \A i \in 1..Len(groq.slept) : groq.slept[i] = 500 * 2 ^ (i - 1)
        /\ \A i \in 1..(n - 1) : groq.log[i] \in Retryable
        /\ (groq.pc = "send") => Len(groq.slept) = n
        /\ (n > 0 /\ groq.pc # "send")
              => (returned <=> ~(groq.log[n] \in Retryable /\ n - 1 < 3))
        /\ (returned /\ n > 0) => Len(groq.slept) = n - 1
        /\ (returned /\ groq.ret = "MissingApiKey") => n = 0

C28_Witness ==
    /\ groq.pc = "idle" /\ groq.fn = "transcribe_multilingual"
    /\ groq.log = <<"Timeout", "ServerError", "RateLimited", "NetworkError">>
    /\ groq.slept = <<500, 1000, 2000>>
    /\ groq.ret = "NetworkError"

\* C29 (SpecText): with every stage enabled, the raw backend text
\* "at two, um, actually three" comes out of transcribe as "at three".
C29_FillerBeforeCorrection ==
    (txt.pc = "done"
       /\ txt.raw = <<"at", " ", "two", ",", " ", "um", ",", " ", "actually", " ", "three">>)
       => txt.text = <<"at", " ", "three">>

\* C30 (SpecTally): within a preview session the failure counter equals the
\* number of consecutive failures other than "Engine busy" since the last
\* success or the start of the session; a busy result changes neither the
\* counter nor the last-transcribed length and publishes nothing; the
\* counter never passes 5, and the session publishes the fatal max_failures
\* error once when it is 5 and not at all before; the recording state is
\* the one the audio manager left.
C30_FailureCounter ==
    /\ tally.quiet
    /\ state = Idle
    /\ is_active
         => /\ consecutive_failures = tally.fails
            /\ consecutive_failures <= 5
            /\ tally.fatal = IF consecutive_failures = 5 THEN 1 ELSE tally.fatal
            /\ tally.fatal <= 1

\* C31 (SpecEvict): a due iteration of the worker that reaches the audio
\* check requests a partial transcription if and only if the buffer holds
\* at least 8000 samples and more than 1600 samples have come in since the
\* last successful partial transcription, the sliding window evicting or not.
C31_RequestIffNewAudio ==
    ingest.decided => (ingest.asked <=> ingest.should)

\* C32 (SpecLoad): no step of a load_model call changes the engine or
\* current_model_id except the one with which it returns Ok, and that step
\* makes both the requested model; so a load_model that fails leaves the
\* engine and current_model_id loaded before as they were.
C32_FailedLoadKeepsEngine ==
    [][loadcall' # loadcall
         => IF loadcall'.pc = "idle" /\ loadcall'.ret = "Ok"
            THEN engine' = loadcall.kind /\ current_model_id' = loadcall.kind
            ELSE engine' = engine /\ current_model_id' = current_model_id]_vars

C32_Witness ==
    /\ loadcall.pc = "idle" /\ loadcall.ret = "Err"
    /\ loadcall.events = <<"loading_started", "loading_failed">>
    /\ engine = "GroqCloud" /\ current_model_id = "GroqCloud"
    /\ loadcall.kind = "Whisper"

\* C33 (SpecAssign): assign_speakers_to_segments returns one entry per
\* transcript segment, in order, with start, end and text as given; the
\* speaker of an entry is None exactly when no diarization segment shares
\* time with the transcript segment, and is otherwise the speaker of a
\* diarization segment whose share is positive and no smaller than any other.
C33_SpeakerByLargestOverlap ==
    asg.pc = "done" =>
       LET Shared(t, d) ==
               IF t.start >= d.end_ms \/ d.start_ms >= t.end THEN 0
               ELSE (IF t.end < d.end_ms THEN t.end ELSE d.end_ms)
                      - (IF t.start > d.start_ms THEN t.start ELSE d.start_ms)
       IN  /\ Len(asg.out) = Len(asg.ts)
           /\ \A i \in 1..Len(asg.ts) :
                 /\ asg.out[i].start = asg.ts[i].start
                 /\ asg.out[i].end = asg.ts[i].end
                 /\ asg.out[i].text = asg.ts[i].text
                 /\ asg.out[i].speaker = "None"
                       <=> \A j \in 1..Len(asg.ds) : Shared(asg.ts[i], asg.ds[j]) <= 0
                 /\ asg.out[i].speaker # "None"
                       => \E j \in 1..Len(asg.ds) :
                             /\ asg.ds[j].speaker = asg.out[i].speaker
                             /\ Shared(asg.ts[i], asg.ds[j]) > 0
                             /\ \A k \in 1..Len(asg.ds) :
                                   Shared(asg.ts[i], asg.ds[k]) <= Shared(asg.ts[i], asg.ds[j])

C33_Witness ==
    /\ asg.pc = "done"
    /\ asg.ts = <<[start |-> 0, end |-> 3, text |-> "t"], [start |-> 3, end |-> 3, text |-> "t"]>>
    /\ asg.ds = <<[start_ms |-> 0, end_ms |-> 1, speaker |-> "SPEAKER_00"],
                  [start_ms |-> 1, end_ms |-> 3, speaker |-> "SPEAKER_01"]>>
    /\ asg.out[1].speaker = "SPEAKER_01"
    /\ asg.out[2].speaker = "None"

\* C34 (SpecLabel): in the labelled text built from timestamped segments,
\* a transcript segment that overlaps no diarization segment opens no label
\* of its own: when the first segment has a speaker, the labels of the text
\* are, in order, the speakers of the segments that have one, a speaker
\* named once for each run of segments it holds.
C34_UnmatchedInheritsSpeaker ==
    (lab.pc = "done" /\ lab.segs /\ lab.ts # <<>>)
       => LET spk == [i \in 1..Len(lab.ts) |-> BestSpeaker(lab.ts[i], lab.ds)]
              \* the speaker in effect at segment i
              ineff[i \in 1..Len(lab.ts)] ==
                  IF spk[i] # "None" \/ i = 1 THEN spk[i] ELSE ineff[i - 1]
              opens == {i \in 1..Len(lab.ts) : i = 1 \/ ineff[i] # ineff[i - 1]}
              labels == {k \in 1..Len(lab.out) : lab.out[k][1] = "label"}
          IN  spk[1] # "None"
                => /\ Cardinality(labels) = Cardinality(opens)
                   /\ \A k \in labels : lab.out[k][2] \in {ineff[i] : i \in opens}

\* C35 (SpecLabel): when the backend result has no timestamped segments and
\* diarization found at least one segment, the whole text is labelled
\* "[speaker]: text" with the speaker whose diarized time is the greatest.
C35_DominantSpeakerLabel ==
    (lab.pc = "done" /\ ~lab.segs)
       => LET RECURSIVE Total(_, _)
              Total(sp, k) ==
                  IF k = 0 THEN 0
                  ELSE Total(sp, k - 1)
                         + (IF lab.ds[k].speaker = sp
                            THEN lab.ds[k].end_ms - lab.ds[k].start_ms ELSE 0)
          IN  /\ Len(lab.out) = 2
              /\ lab.out[1][1] = "label"
              /\ lab.out[2] = <<"text", "t">>
              /\ \A k \in 1..Len(lab.ds) :
                    Total(lab.ds[k].speaker, Len(lab.ds)) <= Total(lab.out[1][2], Len(lab.ds))

\* C36 (SpecSession): an update_mode called while no earlier call is
\* parked on a mutex returns, whatever the mode, the new mode and the
\* recording state are, and when it returns Ok the stored mode is the new
\* mode.
C36_UpdateModeReturns ==
    [][(call'.op = "update_mode" /\ mode_lock = "free" /\ state_lock = "free")
          => /\ call'.ret \in {"Ok", "Err"}
             /\ call'.ret = "Ok" => mode' = call'.to]_vars

\* C37 (SpecSession): whenever no call is parked on a mutex, the state is
\* Recording exactly when the recording flag is set, and a recording has
\* the stream open and a recorder.
C37_RecordingStateConsistent ==
    (mode_lock = "free" /\ state_lock = "free" /\ call.ret # "blocked")
       => /\ (state # Idle) <=> is_recording
          /\ (state # Idle) => (is_open /\ recorder)

\* C38 (SpecSession): a try_start_recording, start_meeting_recording,
\* stop_recording, cancel_recording or update_mode that returns in
\* OnDemand mode with the state Idle leaves the stream closed, provided
\* the stream was closed before if the manager was idle in OnDemand mode
\* already; so a try_start_recording that returns false leaves the stream
\* closed.
C38_OnDemandIdleStreamClosed ==
    [][(/\ call'.op \in {"try_start_recording", "start_meeting_recording",
                         "stop_recording", "cancel_recording", "update_mode"}
        /\ call'.ret # "blocked"
        /\ mode_lock = "free" /\ state_lock = "free"
        /\ mode' = "OnDemand" /\ state' = Idle
        /\ (mode = "OnDemand" /\ state = Idle) => ~is_open)
          => ~is_open']_vars

\* C39 (SpecRace): whenever every load_model and unload_model call has
\* returned, get_current_model() is Some(id) exactly when an engine is
\* loaded, and id names the model of the loaded engine.
C39_ModelIdMatchesEngine ==
    (\A t \in ThreadIds : racers[t].pc = "idle")
       => /\ (current_model_id # "None") <=> (engine # "None")
          /\ current_model_id = engine

\* C40 (SpecFresh): the idle watcher goes on to unload a model only when
\* at least the idle timeout of IdleSeconds seconds has passed since the
\* load_model that loaded it completed.
C40_FreshModelNotEvicted ==
    [][(watcher = "sleep" /\ watcher' = "unload")
          => now - loaded_at >= IdleSeconds * 1000]_vars

====
